---- MODULE Spec2Model ----
(***************************************************************************)
(* AHP Operations Agent: the agent tool-use loop (run-agent.js), the tool  *)
(* router (tool-executor.js) and the entry handler (api/process-visit.js). *)
(*                                                                         *)
(* One run of the handler is modelled: a request arrives, the checks are   *)
(* made, runAgent loops over model calls and tool batches, and the handler *)
(* answers.  The language model and the Google operations are external:    *)
(* what they answer is drawn from small sets.  The spreadsheet adapter     *)
(* (services/google-sheets.js) is modelled over a concrete sheet in the    *)
(* specification SheetSpec.                                                *)
(***************************************************************************)
EXTENDS Integers, Sequences, FiniteSets, TLC

\* ------------------------------------------------------------------------
\* Program constants
\* ------------------------------------------------------------------------
MAX_ITERATIONS == 30

Placeholder == "Agent completed (no summary text returned)"

KnownTools ==
  {"sheets_read_rows", "sheets_append_row", "sheets_update_row",
   "gmail_send", "drive_create_doc"}

\* ------------------------------------------------------------------------
\* Bounds of the explored inputs
\* ------------------------------------------------------------------------
\* Most tool_use blocks in one model response.
MaxBatch == 3
\* The first MaxRichIter responses of a run are drawn from the full response
\* set; later ones repeat one fixed tool request or stop.
MaxRichIter == 1

\* ------------------------------------------------------------------------
\* Inputs: requests, model responses, outcomes of the Google operations
\* ------------------------------------------------------------------------
UnknownTool == "no_such_tool"

ToolNames == KnownTools \cup {UnknownTool}

StoreMessage == "store failure"

ModelMessage == "model call failed"

\* The texts of the text blocks of a response, in order.
TextOptions == { <<>>, <<"">>, <<"a">>, <<"a", "b">> }

TextBlock(t) == [type |-> "text", text |-> t]

\* The input object the model sends with a tool: arg stands for a field no
\* tool declares, the others are fields of the tool's schema (from_name, the
\* filter and the sort options are left out).
ToolInput(nm, p) ==
  CASE nm = "sheets_read_rows"  -> [arg |-> p, sheet_name |-> "Tasks", limit |-> p]
    [] nm = "sheets_append_row" -> [arg |-> p, sheet_name |-> "Tasks", values |-> "v"]
    [] nm = "sheets_update_row" ->
         [arg |-> p, sheet_name |-> "Tasks", row_number |-> 2, values |-> "v"]
    [] nm = "gmail_send" -> [arg |-> p, to |-> "t", subject |-> "s", body |-> "b"]
    [] nm = "drive_create_doc" ->
         [arg |-> p, folder_id |-> "f", title |-> "t", content |-> "c"]
    [] OTHER -> [arg |-> p]

ToolUseBlock(i, p, nm) ==
  [type |-> "tool_use", id |-> 10 * i + p, name |-> nm, input |-> ToolInput(nm, p)]

RECURSIVE SeqsUpTo(_, _)
SeqsUpTo(S, n) ==
  IF n = 0 THEN { <<>> }
  ELSE LET shorter == SeqsUpTo(S, n - 1)
       IN  shorter \cup { Append(s, x) : s \in { t \in shorter : Len(t) = n - 1 }, x \in S }

\* Batches of tool names a rich response may request: every single tool, and
\* batches of reads up to MaxBatch.
RichBatches ==
  { <<nm>> : nm \in ToolNames } \cup SeqsUpTo({"sheets_read_rows"}, MaxBatch)

TextsToBlocks(ts) == [k \in 1..Len(ts) |-> TextBlock(ts[k])]

NamesToBlocks(i, nms) == [k \in 1..Len(nms) |-> ToolUseBlock(i, k, nms[k])]

MkResponse(i, ts, nms, stop) ==
  [content |-> TextsToBlocks(ts) \o NamesToBlocks(i, nms), stop_reason |-> stop]

\* Responses that end the run: natural completion or an abnormal stop.
StopResponses(i) ==
  { MkResponse(i, <<>>, <<>>, "end_turn"), MkResponse(i, <<"b">>, <<>>, "max_tokens") }

\* Further stop responses: other texts, and tool_use blocks left in a response
\* that ends the turn.
RichStopResponses(i) ==
  { MkResponse(i, <<"">>, <<>>, "end_turn"), MkResponse(i, <<"b">>, <<>>, "end_turn"),
    MkResponse(i, <<>>, <<>>, "max_tokens"),
    MkResponse(i, <<>>, <<"gmail_send">>, "end_turn"),
    MkResponse(i, <<"b">>, <<"gmail_send">>, "max_tokens") }

ContinueResponse(i) == MkResponse(i, <<>>, <<"sheets_read_rows">>, "tool_use")

\* Batches of a rich response after the first one: every single tool, and
\* up to two reads.
LaterBatches ==
  { <<nm>> : nm \in ToolNames } \cup SeqsUpTo({"sheets_read_rows"}, 2)

RichResponses(i) ==
  { MkResponse(i, ts, <<"sheets_read_rows">>, "tool_use") : ts \in TextOptions }
  \cup { MkResponse(i, <<>>, nms, "tool_use") :
           nms \in (IF i = 1 THEN RichBatches ELSE LaterBatches) }

\* A batch of two writes, asked for in the last permitted response.
CeilingResponse(i) ==
  MkResponse(i, <<"c">>, <<"sheets_append_row", "gmail_send">>, "tool_use")

\* What the model may answer to the i-th call.  Rich responses come in the
\* first MaxRichIter iterations and, for the stops, also one iteration later
\* (so that a stop follows every rich response) and at the ceiling.
ModelResponses(i) ==
  StopResponses(i) \cup {ContinueResponse(i)}
  \cup (IF i = MAX_ITERATIONS THEN {CeilingResponse(i)} ELSE {})
  \cup (IF i <= MaxRichIter THEN RichResponses(i) ELSE {})
  \cup (IF i <= MaxRichIter + 1 \/ i = MAX_ITERATIONS THEN RichStopResponses(i) ELSE {})

Methods == {"OPTIONS", "GET", "POST"}

\* The x-api-key header: absent, or one of these strings.
ApiKeys == {"none", "wrong", "secret", "PLACEHOLDER"}

EnvKeys == {"unset", "PLACEHOLDER", "secret"}

Bodies == {"valid", "not_object", "no_form_data", "missing_client"}

Requests == [method : Methods, key : ApiKeys, body : Bodies]

VARIABLES
  env,            \* process.env.AHP_API_KEY
  request,        \* the request the handler received (<<>> before it arrives)
  http,           \* responses sent by the entry handler, in order
  pc,             \* position of the handler / of runAgent
  iteration,      \* runAgent: let iteration
  summary,        \* runAgent: let summary
  actions_taken,  \* runAgent: const actions_taken
  messages,       \* runAgent: const messages
  response,       \* runAgent: the response being processed (<<>> when none)
  idx,            \* runAgent: position of the for loop in toolUseBlocks
  toolResults,    \* runAgent: const toolResults of the current batch
  returned,       \* what runAgent returned (<<>> before it returns)
  log,            \* console.warn / console.error lines of runAgent
  modelCalls,     \* calls of client.messages.create
  stops,          \* stop_reason of every response received
  executed,       \* calls of executeTool, in order
  batchStart,     \* number of executeTool calls made when each response arrived
  opsLog,         \* calls of the Sheets / Gmail / Drive operations, in order
  store,          \* the spreadsheet: per sheet name, the header row and the data rows
  headerCache,    \* google-sheets.js: const headerCache
  lastRead,       \* the last readRows call and what it returned (<<>> when none)
  repeated,       \* the last readRows call repeated the one before it
  letterRun,      \* colIndexToLetter: index, let n, let letter (<<>> when not called)
  calls,          \* row operations in progress, per caller (<<>> when none)
  fetches,        \* fetches of a header row issued to the store
  writeLog,       \* write requests the store has carried out, in order
  runs,           \* runAgent calls interleaved in one process (<<>> when none)
  anthropic       \* run-agent.js: let _anthropic (<<>> for null)

vars == <<env, request, http, pc, iteration, summary, actions_taken, messages, response,
          idx, toolResults, returned, log, modelCalls, stops, executed, batchStart,
          opsLog, store, headerCache, lastRead, repeated, letterRun, calls,
          fetches, writeLog, runs, anthropic>>

sheetVars == <<store, headerCache, lastRead, repeated>>

callVars == <<calls, fetches, writeLog>>

restVars == <<letterRun, callVars, runs, anthropic>>

runVars == <<iteration, summary, actions_taken, messages, response, idx,
             toolResults, returned, log, modelCalls, stops, executed, batchStart,
             opsLog>>

\* ------------------------------------------------------------------------
\* Pure functions
\* ------------------------------------------------------------------------
\* Array.prototype.join('\n') over strings.
RECURSIVE JoinLines(_)
JoinLines(ts) ==
  IF Len(ts) = 0 THEN ""
  ELSE IF Len(ts) = 1 THEN ts[1]
  ELSE ts[1] \o "\n" \o JoinLines(Tail(ts))

FilterType(content, ty) == SelectSeq(content, LAMBDA b : b.type = ty)

\* JSON.stringify of a tool result: an error-shaped object or an operation's
\* payload.
JSONstringify(v) ==
  IF "error" \in DOMAIN v
    THEN "{\"error\":\"" \o v.error \o "\"}"
    ELSE "{\"data\":\"" \o v.data \o "\"}"

isAuthorized_noGuard(key, expected) == key = expected

\* lib/auth.js
isAuthorized(key, expected) ==
  IF expected = "unset" \/ expected = "PLACEHOLDER" THEN FALSE
  ELSE key = expected

\* lib/validate.js
validateRequest(body) ==
  IF body = "not_object"
    THEN [valid |-> FALSE, error |-> "Request body must be a JSON object"]
  ELSE IF body = "no_form_data"
    THEN [valid |-> FALSE, error |-> "form_data is required and must be an object"]
  ELSE IF body = "missing_client"
    THEN [valid |-> FALSE, error |-> "form_data[\"Select Client Account\"] is required"]
  ELSE [valid |-> TRUE, error |-> ""]

\* A destructured property of the tool input: <<>> for undefined.
Field(toolInput, f) == IF f \in DOMAIN toolInput THEN << toolInput[f] >> ELSE <<>>

\* The arguments each case of the switch passes on (lines 23-50).
CallArgs(toolName, toolInput) ==
  CASE toolName = "sheets_read_rows" ->
         << Field(toolInput, "sheet_name"),
            [filter_column |-> Field(toolInput, "filter_column"),
             filter_value |-> Field(toolInput, "filter_value"),
             limit |-> Field(toolInput, "limit"),
             sort_by |-> Field(toolInput, "sort_by"),
             sort_order |-> Field(toolInput, "sort_order")] >>
    [] toolName = "sheets_append_row" ->
         << Field(toolInput, "sheet_name"), Field(toolInput, "values") >>
    [] toolName = "sheets_update_row" ->
         << Field(toolInput, "sheet_name"), Field(toolInput, "row_number"),
            Field(toolInput, "values") >>
    [] toolName = "gmail_send" ->
         << Field(toolInput, "to"), Field(toolInput, "subject"),
            Field(toolInput, "body"), Field(toolInput, "from_name") >>
    [] toolName = "drive_create_doc" ->
         << Field(toolInput, "folder_id"), Field(toolInput, "title"),
            Field(toolInput, "content") >>

ToolOp_swapsWrites(toolName) ==
  CASE toolName = "sheets_read_rows"  -> "readRows"
    [] toolName = "sheets_append_row" -> "updateRow"
    [] toolName = "sheets_update_row" -> "appendRow"
    [] toolName = "gmail_send"        -> "sendEmail"
    [] toolName = "drive_create_doc"  -> "createDoc"

\* The operation behind each known tool.
ToolOp(toolName) ==
  CASE toolName = "sheets_read_rows"  -> "readRows"
    [] toolName = "sheets_append_row" -> "appendRow"
    [] toolName = "sheets_update_row" -> "updateRow"
    [] toolName = "gmail_send"        -> "sendEmail"
    [] toolName = "drive_create_doc"  -> "createDoc"

executeTool_unknownThrows(toolName, toolInput, outcome) ==
  IF toolName \in KnownTools
    THEN LET op == ToolOp(toolName)
         IN  IF outcome = "ok"
               THEN [threw |-> FALSE, value |-> [data |-> op], message |-> "",
                     ops |-> << [op |-> op, args |-> CallArgs(toolName, toolInput)] >>]
               ELSE [threw |-> TRUE, value |-> [data |-> ""], message |-> StoreMessage,
                     ops |-> << [op |-> op, args |-> CallArgs(toolName, toolInput)] >>]
    ELSE [threw |-> TRUE, value |-> [data |-> ""],
          message |-> "Unknown tool: " \o toolName, ops |-> <<>>]

\* tool-executor.js executeTool.  outcome is what the underlying operation does
\* ("ok": it resolves, "fail": it throws).  The result tells whether executeTool
\* threw, the value returned or the message thrown, and the operations invoked.
executeTool(toolName, toolInput, outcome) ==
  IF toolName \in KnownTools
    THEN LET op == ToolOp(toolName)
         IN  IF outcome = "ok"
               THEN [threw |-> FALSE, value |-> [data |-> op], message |-> "",
                     ops |-> << [op |-> op, args |-> CallArgs(toolName, toolInput)] >>]
               ELSE [threw |-> TRUE, value |-> [data |-> ""], message |-> StoreMessage,
                     ops |-> << [op |-> op, args |-> CallArgs(toolName, toolInput)] >>]
    ELSE [threw |-> FALSE,
          value |-> [error |-> "Unknown tool: " \o toolName], message |-> "",
          ops |-> <<>>]

\* The outcomes the operation behind a tool can have at iteration i: any
\* operation may fail while responses are rich and in the last permitted
\* iteration, the fixed request in between succeeds.
Outcomes(i, toolName) ==
  IF toolName \in KnownTools /\ (i <= MaxRichIter \/ i = MAX_ITERATIONS)
    THEN {"ok", "fail"}
    ELSE {"ok"}

RunResult_noFallback(sum, acts, iter) ==
  [summary |-> sum, actions_taken |-> acts, iteration_count |-> iter]

\* The object runAgent returns.
RunResult(sum, acts, iter) ==
  [summary |-> IF sum = "" THEN Placeholder ELSE sum,
   actions_taken |-> acts,
   iteration_count |-> iter]

\* getClient, lines 29-35: the client is created on first use and kept in
\* the module variable.
getClient(a) == IF a = <<>> THEN << "client" >> ELSE a

InitialTurn == [role |-> "user", content |-> "Process this service visit: fd"]

HttpError(status, code, error) ==
  [status |-> status, code |-> code, error |-> error, result |-> <<>>]

\* ------------------------------------------------------------------------
\* Spreadsheet adapter, services/google-sheets.js: inputs
\* ------------------------------------------------------------------------
\* Most data rows of a sheet.
MaxRows == 3

\* limit = 10 when the caller gives none.
DefaultLimit == 10

SheetNames == {"Tasks"}

\* Header rows of the explored sheets: none, one column, two columns, the
\* same header twice, and a column named like the internal annotation.
HeaderRows ==
  { <<>>, <<"h">>, <<"h", "k">>, <<"h", "h">>, <<"h", "_rowNumber">> }

\* Data rows as the store returns them: trailing empty cells are left out, so
\* a row may be shorter than the header row.
RowPool ==
  { <<>>, <<"A">>, <<"a", "2">>, <<"a", "b">>, <<"b", "a">> }

Sheets == [headers : HeaderRows, rows : SeqsUpTo(RowPool, MaxRows)]

EmptySheet == [headers |-> <<>>, rows |-> <<>>]

\* An option of readRows is <<>> when the caller leaves it out, <<v>> otherwise.
FilterChoices ==
  { [filter_column |-> <<>>, filter_value |-> <<>>],
    [filter_column |-> <<"h">>, filter_value |-> <<"A">>],
    [filter_column |-> <<"k">>, filter_value |-> <<"2">>],
    [filter_column |-> <<"_rowNumber">>, filter_value |-> <<"2">>] }

SortChoices ==
  { [sort_by |-> <<>>, sort_order |-> <<>>],
    [sort_by |-> <<"h">>, sort_order |-> <<>>],
    [sort_by |-> <<"h">>, sort_order |-> <<"asc">>],
    [sort_by |-> <<"k">>, sort_order |-> <<"asc">>],
    [sort_by |-> <<"_rowNumber">>, sort_order |-> <<>>] }

LimitChoices == { <<>>, <<0>>, <<1>>, <<2>> }

ReadOptions ==
  { [filter_column |-> f.filter_column, filter_value |-> f.filter_value,
     limit |-> l, sort_by |-> o.sort_by, sort_order |-> o.sort_order] :
       f \in FilterChoices, o \in SortChoices, l \in LimitChoices }

\* ------------------------------------------------------------------------
\* Spreadsheet adapter: functions
\* ------------------------------------------------------------------------
Range(s) == { s[i] : i \in 1..Len(s) }

Min(a, b) == IF a <= b THEN a ELSE b

\* config/sheets-config.js, with SPREADSHEET_ID and PROCUREMENT_SPREADSHEET_ID
\* both set.
getSpreadsheetId(sheetName) ==
  IF sheetName = "PROCUREMENT_MASTER" THEN "procurement_id" ELSE "main_id"

\* `${spreadsheetId}::${sheetName}`
CacheKey(sheetName) == << getSpreadsheetId(sheetName), sheetName >>

CacheKeys == { CacheKey(n) : n \in SheetNames }

\* No key has an entry.  An entry is <<headers>>.
EmptyCache == [k \in CacheKeys |-> <<>>]

getHeaders_cachesTruncated(cache, key, sheet) ==
  IF cache[key] # <<>>
    THEN [headers |-> cache[key][1], cache |-> cache]
    ELSE [headers |-> sheet.headers,
          cache |-> [cache EXCEPT ![key] =
                       << SubSeq(sheet.headers, 1, Len(sheet.headers) - 1) >>]]

\* getHeaders: the cached header row of the key, or row 1 of the sheet, which
\* is then cached.  The result holds the headers and the cache afterwards.
getHeaders(cache, key, sheet) ==
  IF cache[key] # <<>>
    THEN [headers |-> cache[key][1], cache |-> cache]
    ELSE [headers |-> sheet.headers,
          cache |-> [cache EXCEPT ![key] = << sheet.headers >>]]

\* String.prototype.toLowerCase on the cell alphabet.
toLowerCase(str) ==
  CASE str = "A" -> "a"
    [] str = "B" -> "b"
    [] OTHER -> str

\* The collation rank behind String.prototype.localeCompare: the empty string,
\* digits, then letters with the lower case letter before its upper case.
CollationRank(str) ==
  CASE str = ""  -> 0
    [] str = "2" -> 1
    [] str = "3" -> 2
    [] str = "4" -> 3
    [] str = "5" -> 4
    [] str = "a" -> 5
    [] str = "A" -> 6
    [] str = "b" -> 7
    [] str = "B" -> 8

localeCompare(a, b) ==
  IF CollationRank(a) < CollationRank(b) THEN -1
  ELSE IF CollationRank(a) > CollationRank(b) THEN 1
  ELSE 0

\* The column whose cell a header key ends up with: headers.forEach assigns
\* obj[header] once per column, so the last column of that name wins.
HeaderColumn(headers, h) ==
  CHOOSE j \in 1..Len(headers) :
    headers[j] = h /\ \A k \in (j + 1)..Len(headers) : headers[k] # h

\* { _rowNumber: i + 2, ...obj } for the k-th data row (k = i + 1): num is the
\* annotation, obj the header-keyed cells; a key of obj named _rowNumber
\* overrides the annotation.
RowObject(headers, row, k) ==
  [num |-> k + 1,
   obj |-> [h \in Range(headers) |->
              IF HeaderColumn(headers, h) <= Len(row)
                THEN row[HeaderColumn(headers, h)] ELSE ""]]

\* String(r[key] ?? '')
StringProp(r, key) ==
  IF key \in DOMAIN r.obj THEN r.obj[key]
  ELSE IF key = "_rowNumber" THEN ToString(r.num)
  ELSE ""

\* r._rowNumber: a number, or the cell of a column named _rowNumber.
RowNumberOf(r) ==
  IF "_rowNumber" \in DOMAIN r.obj
    THEN [str |-> r.obj["_rowNumber"]]
    ELSE [num |-> r.num]

\* ({ _rowNumber, ...rest }) => rest
StripRowNumber(r) == [h \in (DOMAIN r.obj) \ {"_rowNumber"} |-> r.obj[h]]

\* The filter is applied when filter_column is a non-empty string and
\* filter_value is given (line 96).
FilterGiven(options) ==
  /\ options.filter_column # <<>>
  /\ options.filter_column[1] # ""
  /\ options.filter_value # <<>>

PassesFilter(r, options) ==
  toLowerCase(StringProp(r, options.filter_column[1]))
    = toLowerCase(options.filter_value[1])

Cmp_neverNegates(a, b, options) ==
  localeCompare(StringProp(a, options.sort_by[1]), StringProp(b, options.sort_by[1]))

\* The comparator of rows.sort (lines 105-110); sort_order defaults to 'desc'.
Cmp(a, b, options) ==
  LET cmp == localeCompare(StringProp(a, options.sort_by[1]),
                           StringProp(b, options.sort_by[1]))
  IN  IF options.sort_order = <<"asc">> THEN cmp ELSE -cmp

StableInsert_unstable(sorted, x, options) ==
  LET before == { j \in 1..Len(sorted) : Cmp(sorted[j], x, options) < 0 }
      p == IF before = {} THEN 0 ELSE CHOOSE j \in before : \A k \in before : k <= j
  IN  SubSeq(sorted, 1, p) \o <<x>> \o SubSeq(sorted, p + 1, Len(sorted))

\* x put into a sorted sequence behind every element that does not compare
\* greater: Array.prototype.sort is stable.
StableInsert(sorted, x, options) ==
  LET before == { j \in 1..Len(sorted) : Cmp(sorted[j], x, options) <= 0 }
      p == IF before = {} THEN 0 ELSE CHOOSE j \in before : \A k \in before : k <= j
  IN  SubSeq(sorted, 1, p) \o <<x>> \o SubSeq(sorted, p + 1, Len(sorted))

RECURSIVE SortRows(_, _)
SortRows(rows, options) ==
  IF Len(rows) = 0 THEN <<>>
  ELSE StableInsert(SortRows(SubSeq(rows, 1, Len(rows) - 1), options),
                    rows[Len(rows)], options)

Slice_offByOne(seq, limit) == SubSeq(seq, 1, Min(limit + 1, Len(seq)))

\* Array.prototype.slice(0, limit) for a limit that is not negative.
Slice(seq, limit) == SubSeq(seq, 1, Min(limit, Len(seq)))

\* readRows after the two store reads (lines 84-127).
readRows(headers, rawRows, options) ==
  LET limit == IF options.limit = <<>> THEN DefaultLimit ELSE options.limit[1]
      objects == [k \in 1..Len(rawRows) |-> RowObject(headers, rawRows[k], k)]
      filtered == IF FilterGiven(options)
                    THEN SelectSeq(objects, LAMBDA r : PassesFilter(r, options))
                    ELSE objects
      sorted == IF options.sort_by # <<>> /\ options.sort_by[1] # ""
                  THEN SortRows(filtered, options)
                  ELSE filtered
      limited == Slice(sorted, limit)
  IN  [rows |-> [k \in 1..Len(limited) |-> StripRowNumber(limited[k])],
       total_found |-> Len(sorted),
       row_numbers |-> [k \in 1..Len(limited) |-> RowNumberOf(limited[k])]]

\* ------------------------------------------------------------------------
\* Initial state
\* ------------------------------------------------------------------------
\* No request has arrived and runAgent has not started.
AgentIdle ==
  /\ request = <<>>
  /\ http = <<>>
  /\ pc = "idle"
  /\ iteration = 0
  /\ summary = ""
  /\ actions_taken = <<>>
  /\ messages = <<>>
  /\ response = <<>>
  /\ idx = 0
  /\ toolResults = <<>>
  /\ returned = <<>>
  /\ log = <<>>
  /\ modelCalls = 0
  /\ stops = <<>>
  /\ executed = <<>>
  /\ batchStart = <<>>
  /\ opsLog = <<>>

\* Nothing else is going on in the process.
RestIdle ==
  /\ letterRun = <<>>
  /\ calls = <<>>
  /\ fetches = 0
  /\ writeLog = <<>>
  /\ runs = <<>>
  /\ anthropic = <<>>

Init ==
  /\ env \in EnvKeys
  /\ AgentIdle
  /\ store = [n \in SheetNames |-> EmptySheet]
  /\ headerCache = EmptyCache
  /\ lastRead = <<>>
  /\ repeated = FALSE
  /\ RestIdle

\* ------------------------------------------------------------------------
\* Entry handler, api/process-visit.js
\* ------------------------------------------------------------------------
\* The handler receives a request, makes its checks in order and either
\* answers or starts runAgent (which builds the initial user message).
HandlerReceive(req) ==
  /\ pc = "idle"
  /\ request' = << req >>
  /\ UNCHANGED <<sheetVars, letterRun, callVars, runs>>
  /\ IF req.method = "OPTIONS"
       THEN /\ http' = Append(http, HttpError(204, "", ""))
            /\ pc' = "responded"
            /\ UNCHANGED <<messages, anthropic>>
     ELSE IF req.method # "POST"
       THEN /\ http' = Append(http, HttpError(405, "", "Method not allowed. Use POST."))
            /\ pc' = "responded"
            /\ UNCHANGED <<messages, anthropic>>
     ELSE IF ~isAuthorized(req.key, env)
       THEN /\ http' = Append(http, HttpError(401, "AUTH_ERROR", "Unauthorized"))
            /\ pc' = "responded"
            /\ UNCHANGED <<messages, anthropic>>
     ELSE IF ~validateRequest(req.body).valid
       THEN /\ http' = Append(http, HttpError(400, "INVALID_REQUEST",
                                                validateRequest(req.body).error))
            /\ pc' = "responded"
            /\ UNCHANGED <<messages, anthropic>>
     ELSE /\ anthropic' = getClient(anthropic)
          /\ messages' = <<InitialTurn>>
          /\ pc' = "loop"
          /\ UNCHANGED http
  /\ UNCHANGED <<env, iteration, summary, actions_taken, response, idx,
                 toolResults, returned, log, modelCalls, stops, executed,
                 batchStart, opsLog>>

\* runAgent returned: 200 with the summary and the ledger.
HandlerSuccess ==
  /\ pc = "done"
  /\ UNCHANGED <<sheetVars, restVars>>
  /\ http' = Append(http, [status |-> 200, code |-> "OK", error |-> "",
                           result |-> returned])
  /\ pc' = "responded"
  /\ UNCHANGED <<env, request, runVars>>

\* runAgent threw: the catch answers 500.
HandlerCatch ==
  /\ pc = "thrown"
  /\ UNCHANGED <<sheetVars, restVars>>
  /\ http' = Append(http, HttpError(500, "AGENT_ERROR", "Agent error: " \o ModelMessage))
  /\ pc' = "responded"
  /\ UNCHANGED <<env, request, runVars>>

\* ------------------------------------------------------------------------
\* runAgent, agent/run-agent.js
\* ------------------------------------------------------------------------
\* Lines 122-130: the warning at the ceiling and the returned object.
FinishLog(lg, iter) ==
  IF iter >= MAX_ITERATIONS THEN Append(lg, "max_iterations") ELSE lg

LoopCondition_offByOne(iter) == iter <= MAX_ITERATIONS

\* The condition of the while loop (line 58).
LoopCondition(iter) == iter < MAX_ITERATIONS

CallModel_countsLate ==
  /\ pc = "loop"
  /\ UNCHANGED <<sheetVars, restVars>>
  /\ LoopCondition(iteration)
  /\ iteration' = IF modelCalls = 0 THEN iteration ELSE iteration + 1
  /\ modelCalls' = modelCalls + 1
  /\ pc' = "awaiting_model"
  /\ UNCHANGED <<env, request, http, summary, actions_taken, messages, response, idx,
                 toolResults, returned, log, stops, executed, batchStart, opsLog>>

\* while (iteration < MAX_ITERATIONS) { iteration++; create(...) }
CallModel ==
  /\ pc = "loop"
  /\ UNCHANGED <<sheetVars, restVars>>
  /\ LoopCondition(iteration)
  /\ iteration' = iteration + 1
  /\ modelCalls' = modelCalls + 1
  /\ pc' = "awaiting_model"
  /\ UNCHANGED <<env, request, http, summary, actions_taken, messages, response, idx,
                 toolResults, returned, log, stops, executed, batchStart, opsLog>>

ReturnAtCeiling_dropsLastBatch ==
  /\ pc = "loop"
  /\ UNCHANGED <<sheetVars, restVars>>
  /\ ~LoopCondition(iteration)
  /\ log' = FinishLog(log, iteration)
  /\ returned' = << RunResult(summary, SubSeq(actions_taken, 1, batchStart[iteration]),
                              iteration) >>
  /\ pc' = "done"
  /\ UNCHANGED <<env, request, http, iteration, summary, actions_taken, messages,
                 response, idx, toolResults, modelCalls, stops, executed,
                 batchStart, opsLog>>

\* The loop condition fails: fall through to the return.
ReturnAtCeiling ==
  /\ pc = "loop"
  /\ UNCHANGED <<sheetVars, restVars>>
  /\ ~LoopCondition(iteration)
  /\ log' = FinishLog(log, iteration)
  /\ returned' = << RunResult(summary, actions_taken, iteration) >>
  /\ pc' = "done"
  /\ UNCHANGED <<env, request, http, iteration, summary, actions_taken, messages,
                 response, idx, toolResults, modelCalls, stops, executed,
                 batchStart, opsLog>>

\* The running summary after a response (lines 73-77).
NextSummary(sum, content) ==
  LET textBlocks == FilterType(content, "text")
  IN  IF Len(textBlocks) > 0
        THEN JoinLines([k \in 1..Len(textBlocks) |-> textBlocks[k].text])
        ELSE sum

StopKind_byBlocks(resp) ==
  IF Len(FilterType(resp.content, "tool_use")) > 0 THEN "tools"
  ELSE IF resp.stop_reason = "end_turn" THEN "break"
  ELSE IF resp.stop_reason = "tool_use" THEN "tools"
  ELSE "unexpected"

\* What the loop does with a response: the tests on stop_reason of lines 80,
\* 85 and 117.
StopKind(resp) ==
  IF resp.stop_reason = "end_turn" THEN "break"
  ELSE IF resp.stop_reason = "tool_use" THEN "tools"
  ELSE "unexpected"

UserTurn_dropsLast(results) ==
  [role |-> "user", content |-> SubSeq(results, 1, Len(results) - 1)]

\* messages.push({ role: 'user', content: toolResults }) (line 113).
UserTurn(results) == [role |-> "user", content |-> results]

AssistantTurn_asUser(content) == [role |-> "user", content |-> content]

\* messages.push({ role: 'assistant', content: response.content }) (line 71).
AssistantTurn(content) == [role |-> "assistant", content |-> content]

\* client.messages.create resolves with resp (lines 70-87 and 117-130).
ModelResponds(resp) ==
  /\ pc = "awaiting_model"
  /\ UNCHANGED <<sheetVars, restVars>>
  /\ stops' = Append(stops, resp.stop_reason)
  /\ batchStart' = Append(batchStart, Len(executed))
  /\ summary' = NextSummary(summary, resp.content)
  /\ LET withAssistant ==
           Append(messages, AssistantTurn(resp.content))
         toolUseBlocks == FilterType(resp.content, "tool_use")
     IN  IF StopKind(resp) = "break"
           THEN /\ messages' = withAssistant
                /\ log' = FinishLog(log, iteration)
                /\ returned' = << RunResult(summary', actions_taken, iteration) >>
                /\ pc' = "done"
                /\ UNCHANGED <<response, idx, toolResults>>
         ELSE IF StopKind(resp) = "tools"
           THEN IF Len(toolUseBlocks) = 0
                  THEN /\ messages' = Append(withAssistant, UserTurn(<<>>))
                       /\ pc' = "loop"
                       /\ UNCHANGED <<response, idx, toolResults, returned, log>>
                  ELSE /\ messages' = withAssistant
                       /\ response' = << resp >>
                       /\ idx' = 1
                       /\ toolResults' = <<>>
                       /\ pc' = "executing"
                       /\ UNCHANGED <<returned, log>>
         ELSE /\ messages' = withAssistant
              /\ log' = FinishLog(Append(log, "unexpected_stop"), iteration)
              /\ returned' = << RunResult(summary', actions_taken, iteration) >>
              /\ pc' = "done"
              /\ UNCHANGED <<response, idx, toolResults>>
  /\ UNCHANGED <<env, request, http, iteration, actions_taken, modelCalls, executed, opsLog>>

\* client.messages.create rejects: nothing catches it inside runAgent.
ModelThrows ==
  /\ pc = "awaiting_model"
  /\ UNCHANGED <<sheetVars, restVars>>
  /\ pc' = "thrown"
  /\ UNCHANGED <<env, request, http, runVars>>

ToolCallRecord_alwaysResult(block, r) ==
  [tool |-> block.name, input |-> block.input,
   result |-> IF r.threw THEN [error |-> r.message] ELSE r.value]

\* The Action Record of one invocation (lines 90-101).
ToolCallRecord(block, r) ==
  IF r.threw
    THEN [tool |-> block.name, input |-> block.input, error |-> r.message]
    ELSE [tool |-> block.name, input |-> block.input, result |-> r.value]

\* The value serialized into the tool_result (lines 94 and 99).
ToolResultValue(r) == IF r.threw THEN [error |-> r.message] ELSE r.value

ToolResultBlock_wrongId(block, r) ==
  [type |-> "tool_result", tool_use_id |-> block.input.arg,
   content |-> JSONstringify(ToolResultValue(r))]

ToolResultBlock(block, r) ==
  [type |-> "tool_result", tool_use_id |-> block.id,
   content |-> JSONstringify(ToolResultValue(r))]

PushAction_unshift(acts, toolCall) == <<toolCall>> \o acts

\* actions_taken.push(toolCall) (line 103).
PushAction(acts, toolCall) == Append(acts, toolCall)

MoreBlocks_shortCircuit(i, n, r) == i < n /\ ~r.threw

\* The for loop goes on while blocks are left, whatever block i did (line 89).
MoreBlocks(i, n, r) == i < n

AfterBlock_rethrow(r, more) ==
  IF r.threw THEN "thrown" ELSE IF more THEN "executing" ELSE "loop"

\* Where runAgent stands after a block: the try/catch around executeTool
\* absorbs a throw, so the loop goes to the next block or to the next iteration
\* (lines 93-101, 114).
AfterBlock(r, more) == IF more THEN "executing" ELSE "loop"

ExecBlock_recordsBoth(outcome) ==
  /\ pc = "executing"
  /\ UNCHANGED <<sheetVars, restVars>>
  /\ LET toolUseBlocks == FilterType(response[1].content, "tool_use")
         block == toolUseBlocks[idx]
         r == executeTool(block.name, block.input, outcome)
         results == Append(toolResults, ToolResultBlock(block, r))
     IN  /\ outcome \in Outcomes(iteration, block.name)
         /\ executed' = Append(executed, [iter |-> iteration, pos |-> idx,
                                          id |-> block.id, name |-> block.name,
                                          input |-> block.input, threw |-> r.threw,
                                          message |-> r.message, ops |-> r.ops])
         /\ opsLog' = opsLog \o r.ops
         /\ log' = IF r.threw THEN Append(log, "tool_threw") ELSE log
         /\ actions_taken' = PushAction(actions_taken,
                                       IF r.threw
                                         THEN [tool |-> block.name, input |-> block.input,
                                               result |-> ToolResultValue(r),
                                               error |-> r.message]
                                         ELSE ToolCallRecord(block, r))
         /\ pc' = AfterBlock(r, MoreBlocks(idx, Len(toolUseBlocks), r))
         /\ IF MoreBlocks(idx, Len(toolUseBlocks), r)
              THEN /\ idx' = idx + 1
                   /\ toolResults' = results
                   /\ UNCHANGED <<messages, response>>
              ELSE /\ messages' = Append(messages, UserTurn(results))
                   /\ idx' = 0
                   /\ toolResults' = <<>>
                   /\ response' = <<>>
  /\ UNCHANGED <<env, request, http, iteration, summary, returned, modelCalls, stops,
                 batchStart>>

\* One turn of the for loop over toolUseBlocks (lines 89-110); after the last
\* block the batch is pushed as one user turn (line 113).
ExecBlock(outcome) ==
  /\ pc = "executing"
  /\ UNCHANGED <<sheetVars, restVars>>
  /\ LET toolUseBlocks == FilterType(response[1].content, "tool_use")
         block == toolUseBlocks[idx]
         r == executeTool(block.name, block.input, outcome)
         results == Append(toolResults, ToolResultBlock(block, r))
     IN  /\ outcome \in Outcomes(iteration, block.name)
         /\ executed' = Append(executed, [iter |-> iteration, pos |-> idx,
                                          id |-> block.id, name |-> block.name,
                                          input |-> block.input, threw |-> r.threw,
                                          message |-> r.message, ops |-> r.ops])
         /\ opsLog' = opsLog \o r.ops
         /\ log' = IF r.threw THEN Append(log, "tool_threw") ELSE log
         /\ actions_taken' = PushAction(actions_taken, ToolCallRecord(block, r))
         /\ pc' = AfterBlock(r, MoreBlocks(idx, Len(toolUseBlocks), r))
         /\ IF MoreBlocks(idx, Len(toolUseBlocks), r)
              THEN /\ idx' = idx + 1
                   /\ toolResults' = results
                   /\ UNCHANGED <<messages, response>>
              ELSE /\ messages' = Append(messages, UserTurn(results))
                   /\ idx' = 0
                   /\ toolResults' = <<>>
                   /\ response' = <<>>
  /\ UNCHANGED <<env, request, http, iteration, summary, returned, modelCalls, stops,
                 batchStart>>

Next ==
  \/ \E req \in Requests : HandlerReceive(req)
  \/ HandlerSuccess
  \/ HandlerCatch
  \/ CallModel
  \/ ReturnAtCeiling
  \/ \E resp \in ModelResponses(iteration) : ModelResponds(resp)
  \/ ModelThrows
  \/ \E outcome \in {"ok", "fail"} : ExecBlock(outcome)

Spec == Init /\ [][Next]_vars

\* ------------------------------------------------------------------------
\* The spreadsheet adapter on a concrete sheet
\* ------------------------------------------------------------------------
\* The module has just been loaded (the cache is empty); the sheet holds any
\* header row and any data rows.
SheetInit ==
  /\ env = "secret"
  /\ AgentIdle
  /\ store \in [SheetNames -> Sheets]
  /\ headerCache = EmptyCache
  /\ lastRead = <<>>
  /\ repeated = FALSE
  /\ RestIdle

\* readRows(sheetName, options), lines 71-128.  A caller repeats its call with
\* the same arguments.
ReadRowsCall(sheetName, options) ==
  /\ lastRead # <<>> => (lastRead[1].sheet = sheetName /\ lastRead[1].args = options)
  /\ LET g == getHeaders(headerCache, CacheKey(sheetName), store[sheetName])
     IN  /\ headerCache' = g.cache
         /\ lastRead' = << [sheet |-> sheetName, args |-> options,
                            result |-> readRows(g.headers, store[sheetName].rows,
                                                options)] >>
  /\ repeated' = (lastRead # <<>>)
  /\ UNCHANGED <<store, env, request, http, pc, runVars, restVars>>

SheetNext ==
  \E sheetName \in SheetNames, options \in ReadOptions :
    ReadRowsCall(sheetName, options)

SheetSpec == SheetInit /\ [][SheetNext]_vars

\* ------------------------------------------------------------------------
\* colIndexToLetter, services/google-sheets.js lines 49-57
\* ------------------------------------------------------------------------
\* Largest column index converted.
MaxIndex == 710

LoopBody_appends(st) ==
  [index |-> st.index,
   n |-> (st.n \div 26) - 1,
   letter |-> st.letter \o << (st.n % 26) + 65 >>]

\* One turn of the while loop: the char code of the next letter is put in
\* front, n = Math.floor(n / 26) - 1.  letter is the sequence of char codes.
LoopBody(st) ==
  [index |-> st.index,
   n |-> (st.n \div 26) - 1,
   letter |-> << (st.n % 26) + 65 >> \o st.letter]

\* let letter = ''; let n = index;
LoopStart(index) == [index |-> index, n |-> index, letter |-> <<>>]

RECURSIVE WhileLoop(_)
WhileLoop(st) == IF st.n >= 0 THEN WhileLoop(LoopBody(st)) ELSE st.letter

colIndexToLetter(index) == WhileLoop(LoopStart(index))

LetterInit ==
  /\ env = "secret"
  /\ AgentIdle
  /\ store = [n \in SheetNames |-> EmptySheet]
  /\ headerCache = EmptyCache
  /\ lastRead = <<>>
  /\ repeated = FALSE
  /\ letterRun \in { LoopStart(index) : index \in 0..MaxIndex }
  /\ calls = <<>>
  /\ fetches = 0
  /\ writeLog = <<>>
  /\ runs = <<>>
  /\ anthropic = <<>>

\* while (n >= 0) { ... }
LetterLoopStep ==
  /\ letterRun.n >= 0
  /\ letterRun' = LoopBody(letterRun)
  /\ UNCHANGED <<env, request, http, pc, runVars, sheetVars, callVars, runs, anthropic>>

LetterNext == LetterLoopStep

LetterSpec == LetterInit /\ [][LetterNext]_vars

\* ------------------------------------------------------------------------
\* Row operations against the store, services/google-sheets.js: inputs
\* ------------------------------------------------------------------------
\* Callers that may have a row operation in progress at the same time.
Callers == {"c1", "c2"}

\* A value of a values object: a string, a number or null.
StrVal(v) == [t |-> "str", v |-> v, n |-> 0]

NumVal(n) == [t |-> "num", v |-> "", n |-> n]

NullVal == [t |-> "null", v |-> "", n |-> 0]

\* String(val)
StringOf(val) ==
  CASE val.t = "str" -> val.v
    [] val.t = "num" -> ToString(val.n)
    [] val.t = "null" -> "null"

\* values objects, as their entries in insertion order: one header; a number
\* with a key that is no header; a null and a second header.
ValueObjects ==
  { << <<"h", StrVal("x")>> >>,
    << <<"zz", StrVal("y")>>, <<"h", NumVal(5)>> >>,
    << <<"k", NullVal>>, <<"h", StrVal("x")>> >> }

\* The header rows and the data rows the sheet starts with; one header row
\* has the same string in two columns; the long sheet puts the next row at a
\* two-digit row number.
CallHeaderRows == { <<"h">>, <<"h", "k">>, <<"h", "h">> }

NineRows == [k \in 1..9 |-> <<"a">>]

CallRows == { <<>>, << <<"a", "b">> >>, NineRows }

\* What the header row becomes when somebody edits the sheet by hand.
EditedHeaderRow == <<"k", "h">>

ReadCallArgs ==
  { [filter_column |-> <<>>, filter_value |-> <<>>, limit |-> <<>>,
     sort_by |-> <<>>, sort_order |-> <<>>] }

RowOperations ==
  { [op |-> "readRows", sheet |-> n, rowNumber |-> 0, values |-> <<>>, options |-> o] :
      n \in SheetNames, o \in ReadCallArgs }
  \cup { [op |-> "appendRow", sheet |-> n, rowNumber |-> 0, values |-> v,
          options |-> <<>>] : n \in SheetNames, v \in ValueObjects }
  \cup { [op |-> "updateRow", sheet |-> n, rowNumber |-> r, values |-> v,
          options |-> <<>>] : n \in SheetNames, r \in {1, 2}, v \in ValueObjects }

\* ------------------------------------------------------------------------
\* Row operations against the store: functions
\* ------------------------------------------------------------------------
\* values[header]: <<>> when the object has no such key.
Lookup(values, key) ==
  LET at == { j \in 1..Len(values) : values[j][1] = key }
  IN  IF at = {} THEN <<>> ELSE << values[CHOOSE j \in at : TRUE][2] >>

RowData_keepsNull(headers, values) ==
  [j \in 1..Len(headers) |->
     IF Lookup(values, headers[j]) = <<>> THEN ""
     ELSE StringOf(Lookup(values, headers[j])[1])]

\* appendRow lines 145-149: the row in header order.
RowData(headers, values) ==
  [j \in 1..Len(headers) |->
     IF Lookup(values, headers[j]) = <<>> \/ Lookup(values, headers[j])[1].t = "null"
       THEN ""
       ELSE StringOf(Lookup(values, headers[j])[1])]

\* headers.indexOf(header), 0-based, -1 when absent.
IndexOf(headers, header) ==
  LET at == { j \in 1..Len(headers) : headers[j] = header }
  IN  IF at = {} THEN -1 ELSE (CHOOSE j \in at : \A k \in at : j <= k) - 1

\* The entries of values that updateRow does not skip (line 185).
ResolvedEntries(headers, values) ==
  SelectSeq(values, LAMBDA e : IndexOf(headers, e[1]) # -1)

CellRequest_nextColumn(sheetName, rowNumber, headers, e) ==
  [range |-> << sheetName, colIndexToLetter(IndexOf(headers, e[1]) + 1), rowNumber >>,
   value |-> IF e[2].t = "null" THEN "" ELSE StringOf(e[2])]

\* The values.update request of one entry (lines 187-197): the range
\* `${sheetName}!${colLetter}${rowNumber}` and String(value ?? '').
CellRequest(sheetName, rowNumber, headers, e) ==
  [range |-> << sheetName, colIndexToLetter(IndexOf(headers, e[1])), rowNumber >>,
   value |-> IF e[2].t = "null" THEN "" ELSE StringOf(e[2])]

CellRequests(sheetName, rowNumber, headers, values) ==
  { CellRequest(sheetName, rowNumber, headers, ResolvedEntries(headers, values)[j]) :
      j \in 1..Len(ResolvedEntries(headers, values)) }

UpdatedColumns_allKeys(headers, values) == [j \in 1..Len(values) |-> values[j][1]]

\* updated_columns (line 198).
UpdatedColumns(headers, values) ==
  [j \in 1..Len(ResolvedEntries(headers, values)) |->
     ResolvedEntries(headers, values)[j][1]]

\* The store: the column a column name stands for, its number in bijective
\* base 26 (A is 1, Z is 26, AA is 27).
RECURSIVE ColumnNumber(_)
ColumnNumber(codes) ==
  IF Len(codes) = 0 THEN 0
  ELSE 26 * ColumnNumber(SubSeq(codes, 1, Len(codes) - 1)) + (codes[Len(codes)] - 64)

\* The store: a row with cell c set to v, padded with empty cells.
SetCell(row, c, v) ==
  [j \in 1..(IF c > Len(row) THEN c ELSE Len(row)) |->
     IF j = c THEN v ELSE IF j <= Len(row) THEN row[j] ELSE ""]

\* The store carries out a cell write: row 1 is the header row, row r the
\* data row r - 1; missing rows in between are empty.
WriteCell(sheet, req) ==
  LET r == req.range[3]
      c == ColumnNumber(req.range[2])
  IN  IF r = 1
        THEN [sheet EXCEPT !.headers = SetCell(sheet.headers, c, req.value)]
        ELSE [sheet EXCEPT !.rows =
                [k \in 1..(IF r - 1 > Len(sheet.rows) THEN r - 1 ELSE Len(sheet.rows)) |->
                   IF k = r - 1
                     THEN SetCell(IF k <= Len(sheet.rows) THEN sheet.rows[k] ELSE <<>>,
                                  c, req.value)
                     ELSE IF k <= Len(sheet.rows) THEN sheet.rows[k] ELSE <<>>]]

\* The characters of a decimal numeral and of a column name.
DigitChars == << "0", "1", "2", "3", "4", "5", "6", "7", "8", "9" >>

UpperChars ==
  << "A", "B", "C", "D", "E", "F", "G", "H", "I", "J", "K", "L", "M",
     "N", "O", "P", "Q", "R", "S", "T", "U", "V", "W", "X", "Y", "Z" >>

RECURSIVE Numeral(_)
Numeral(n) ==
  IF n < 10 THEN << DigitChars[n + 1] >>
  ELSE Numeral(n \div 10) \o << DigitChars[(n % 10) + 1] >>

ColumnChars(codes) == [j \in 1..Len(codes) |-> UpperChars[codes[j] - 64]]

SheetNameChars(sheetName) ==
  CASE sheetName = "Tasks" -> << "T", "a", "s", "k", "s" >>

\* The store: updates.updatedRange of an append of ncols cells at row r, as a
\* sequence of characters: "Tasks!A10:B10", or "Tasks!A10" for one cell.
UpdatedRange(sheetName, r, ncols) ==
  SheetNameChars(sheetName) \o << "!", "A" >> \o Numeral(r)
    \o (IF ncols > 1
          THEN << ":" >> \o ColumnChars(colIndexToLetter(ncols - 1)) \o Numeral(r)
          ELSE <<>>)

\* The digits a string ends with.
RECURSIVE TrailingDigits(_)
TrailingDigits(chars) ==
  IF Len(chars) = 0 \/ chars[Len(chars)] \notin Range(DigitChars) THEN <<>>
  ELSE TrailingDigits(SubSeq(chars, 1, Len(chars) - 1)) \o << chars[Len(chars)] >>

DigitValue(ch) == (CHOOSE j \in 1..10 : DigitChars[j] = ch) - 1

\* parseInt(digits, 10)
RECURSIVE ParseInt(_)
ParseInt(digits) ==
  IF Len(digits) = 1 THEN DigitValue(digits[1])
  ELSE 10 * ParseInt(SubSeq(digits, 1, Len(digits) - 1)) + DigitValue(digits[Len(digits)])

RowNumberFromRange_lastDigit(chars) ==
  IF Len(chars) > 0 /\ chars[Len(chars)] \in Range(DigitChars)
    THEN << DigitValue(chars[Len(chars)]) >>
    ELSE <<>>

\* Lines 160-162: updatedRange.match(/:?[A-Z]+(\d+)$/) matches when the string
\* ends with upper case letters followed by digits, and the group is those
\* digits; row_number is <<>> for null.
RowNumberFromRange(chars) ==
  LET digits == TrailingDigits(chars)
      before == Len(chars) - Len(digits)
  IN  IF Len(digits) > 0 /\ before >= 1 /\ chars[before] \in Range(UpperChars)
        THEN << ParseInt(digits) >>
        ELSE <<>>

\* ------------------------------------------------------------------------
\* Row operations against the store: concurrent callers
\* ------------------------------------------------------------------------
IdleCall ==
  [pc |-> "idle", op |-> "", sheet |-> "", rowNumber |-> 0, values |-> <<>>,
   options |-> <<>>, headers |-> <<>>, hit |-> FALSE, pending |-> {},
   issued |-> {}, failed |-> FALSE, result |-> <<>>]

CallInit ==
  /\ env = "secret"
  /\ AgentIdle
  /\ store \in [SheetNames -> [headers : CallHeaderRows, rows : CallRows]]
  /\ headerCache = EmptyCache
  /\ lastRead = <<>>
  /\ repeated = FALSE
  /\ letterRun = <<>>
  /\ calls = [p \in Callers |-> IdleCall]
  /\ fetches = 0
  /\ writeLog = <<>>
  /\ runs = <<>>
  /\ anthropic = <<>>

\* The operation goes on with its header row: readRows and appendRow issue
\* their store call, updateRow issues all its cell writes (lines 183-199).
WithHeaders(call, headers) ==
  IF call.op = "updateRow"
    THEN [call EXCEPT !.headers = << headers >>, !.pc = "writing",
                      !.pending = CellRequests(call.sheet, call.rowNumber, headers,
                                               call.values),
                      !.issued = CellRequests(call.sheet, call.rowNumber, headers,
                                              call.values)]
    ELSE [call EXCEPT !.headers = << headers >>, !.pc = "calling"]

CacheHit_never(cache, key) == FALSE

\* headerCache.has(cacheKey) (line 31).
CacheHit(cache, key) == cache[key] # <<>>

\* A caller starts a row operation; getHeaders looks the key up (lines 30-33)
\* and on a miss asks the store for row 1.
BeginCall(p, o) ==
  /\ calls[p].pc = "idle"
  /\ LET started == [IdleCall EXCEPT !.op = o.op, !.sheet = o.sheet,
                                     !.rowNumber = o.rowNumber, !.values = o.values,
                                     !.options = o.options]
         entry == headerCache[CacheKey(o.sheet)]
     IN  IF CacheHit(headerCache, CacheKey(o.sheet))
           THEN /\ calls' = [calls EXCEPT ![p] =
                               WithHeaders([started EXCEPT !.hit = TRUE], entry[1])]
                /\ UNCHANGED fetches
           ELSE /\ calls' = [calls EXCEPT ![p] = [started EXCEPT !.pc = "fetching"]]
                /\ fetches' = fetches + 1
  /\ UNCHANGED <<env, request, http, pc, runVars, sheetVars, letterRun, writeLog, runs, anthropic>>

\* headerCache.set(cacheKey, headers) (line 41).
CacheSet(cache, key, headers) == [cache EXCEPT ![key] = << headers >>]

\* The store answers the header fetch (lines 35-42).
FetchResolves(p) ==
  /\ calls[p].pc = "fetching"
  /\ LET headers == store[calls[p].sheet].headers
     IN  /\ headerCache' = CacheSet(headerCache, CacheKey(calls[p].sheet), headers)
         /\ calls' = [calls EXCEPT ![p] = WithHeaders(calls[p], headers)]
  /\ UNCHANGED <<env, request, http, pc, runVars, store, lastRead, repeated, letterRun,
                 fetches, writeLog, runs, anthropic>>

Failure_swallowed(call) ==
  [call EXCEPT !.pc = "returned", !.failed = TRUE,
               !.result = << [success |-> FALSE] >>]

\* A store call of the operation rejects: nothing catches it, so the
\* operation throws.
Failure(call) == [call EXCEPT !.pc = "thrown", !.failed = TRUE]

StoreCallFails_cachesEmpty(p) ==
  /\ calls[p].pc \in {"fetching", "calling"}
  /\ calls' = [calls EXCEPT ![p] = Failure(calls[p])]
  /\ headerCache' = IF calls[p].pc = "fetching"
                      THEN CacheSet(headerCache, CacheKey(calls[p].sheet), <<>>)
                      ELSE headerCache
  /\ UNCHANGED <<env, request, http, pc, runVars, store, lastRead, repeated, letterRun,
                 fetches, writeLog, runs, anthropic>>

\* The header fetch, the row fetch or the append rejects.
StoreCallFails(p) ==
  /\ calls[p].pc \in {"fetching", "calling"}
  /\ calls' = [calls EXCEPT ![p] = Failure(calls[p])]
  /\ UNCHANGED <<env, request, http, pc, runVars, sheetVars, letterRun, fetches, writeLog, runs, anthropic>>

\* readRows: the store answers the row fetch (lines 79-127).
ReadResolves(p) ==
  /\ calls[p].pc = "calling" /\ calls[p].op = "readRows"
  /\ LET call == calls[p]
     IN  calls' = [calls EXCEPT ![p] =
                     [call EXCEPT !.pc = "returned",
                                  !.result = << readRows(call.headers[1],
                                                         store[call.sheet].rows,
                                                         call.options) >>]]
  /\ UNCHANGED <<env, request, http, pc, runVars, sheetVars, letterRun, fetches, writeLog, runs, anthropic>>

\* appendRow: the store inserts the row after the last one and reports the
\* range it wrote, in either notation (lines 151-164).
AppendResolves(p, oneCell) ==
  /\ calls[p].pc = "calling" /\ calls[p].op = "appendRow"
  /\ LET call == calls[p]
         rowData == RowData(call.headers[1], call.values)
         r == Len(store[call.sheet].rows) + 2
         updatedRange == UpdatedRange(call.sheet, r, IF oneCell THEN 1 ELSE Len(rowData))
     IN  /\ store' = [store EXCEPT ![call.sheet].rows = Append(@, rowData)]
         /\ writeLog' = Append(writeLog, [caller |-> p, kind |-> "append",
                                          range |-> << call.sheet, <<65>>, r >>,
                                          value |-> ""])
         /\ calls' = [calls EXCEPT ![p] =
                        [@ EXCEPT !.pc = "returned",
                                  !.result = << [success |-> TRUE,
                                                 row_number |-> RowNumberFromRange(updatedRange),
                                                 sheet_name |-> call.sheet] >>]]
  /\ UNCHANGED <<env, request, http, pc, runVars, headerCache, lastRead, repeated, letterRun,
                 fetches, runs, anthropic>>

\* updateRow: the store carries out one of the cell writes; the writes were
\* issued together and finish in any order, also after another one failed.
CellWrite(p, req) ==
  /\ calls[p].pc \in {"writing", "thrown"}
  /\ req \in calls[p].pending
  /\ store' = [store EXCEPT ![req.range[1]] = WriteCell(@, req)]
  /\ writeLog' = Append(writeLog, [caller |-> p, kind |-> "update",
                                   range |-> req.range, value |-> req.value])
  /\ calls' = [calls EXCEPT ![p].pending = @ \ {req}]
  /\ UNCHANGED <<env, request, http, pc, runVars, headerCache, lastRead, repeated, letterRun,
                 fetches, runs, anthropic>>

\* updateRow: a cell write rejects, and with it Promise.all (line 201).
CellWriteFails(p, req) ==
  /\ calls[p].pc \in {"writing", "thrown"}
  /\ req \in calls[p].pending
  /\ calls' = [calls EXCEPT ![p] = [Failure(@) EXCEPT !.pending = @ \ {req}]]
  /\ UNCHANGED <<env, request, http, pc, runVars, sheetVars, letterRun, fetches, writeLog, runs, anthropic>>

UpdateReturns_ignoresFailure(p) ==
  /\ calls[p].pc \in {"writing", "thrown"} /\ calls[p].issued # {}
  /\ calls[p].pending = {}
  /\ LET call == calls[p]
     IN  calls' = [calls EXCEPT ![p] =
                     [call EXCEPT !.pc = "returned", !.failed = FALSE,
                                  !.result = << [success |-> TRUE,
                                                 row_number |-> call.rowNumber,
                                                 updated_columns |->
                                                   UpdatedColumns(call.headers[1],
                                                                  call.values)] >>]]
  /\ UNCHANGED <<env, request, http, pc, runVars, sheetVars, letterRun, fetches, writeLog, runs, anthropic>>

\* updateRow: Promise.all resolves when every write has finished (lines 201-203).
UpdateReturns(p) ==
  /\ calls[p].pc = "writing" /\ calls[p].pending = {}
  /\ LET call == calls[p]
     IN  calls' = [calls EXCEPT ![p] =
                     [call EXCEPT !.pc = "returned",
                                  !.result = << [success |-> TRUE,
                                                 row_number |-> call.rowNumber,
                                                 updated_columns |->
                                                   UpdatedColumns(call.headers[1],
                                                                  call.values)] >>]]
  /\ UNCHANGED <<env, request, http, pc, runVars, sheetVars, letterRun, fetches, writeLog, runs, anthropic>>

\* Somebody edits the header row of the sheet by hand.
ExternalHeaderEdit(sheetName) ==
  /\ store[sheetName].headers # EditedHeaderRow
  /\ store' = [store EXCEPT ![sheetName].headers = EditedHeaderRow]
  /\ UNCHANGED <<env, request, http, pc, runVars, headerCache, lastRead, repeated, restVars>>

CallNext ==
  \/ \E p \in Callers, o \in RowOperations : BeginCall(p, o)
  \/ \E p \in Callers : FetchResolves(p)
  \/ \E p \in Callers : StoreCallFails(p)
  \/ \E p \in Callers : ReadResolves(p)
  \/ \E p \in Callers, oneCell \in BOOLEAN : AppendResolves(p, oneCell)
  \/ \E p \in Callers : \E req \in calls[p].pending : CellWrite(p, req)
  \/ \E p \in Callers : \E req \in calls[p].pending : CellWriteFails(p, req)
  \/ \E p \in Callers : UpdateReturns(p)
  \/ \E sheetName \in SheetNames : ExternalHeaderEdit(sheetName)

CallSpec == CallInit /\ [][CallNext]_vars

\* ------------------------------------------------------------------------
\* Two runAgent calls interleaved in one process
\* ------------------------------------------------------------------------
RunIds == {1, 2}

\* What belongs to run r carries r: its form data, the ids and the inputs of
\* the tool_use blocks the model sends it, the text it gets.
RunTag(r) == 1000 * r

InitialTurnOf(r) ==
  [role |-> "user", content |-> "Process this service visit: fd" \o ToString(r)]

RunToolUse(r, i) ==
  [type |-> "tool_use", id |-> RunTag(r) + 10 * i + 1, name |-> "sheets_read_rows",
   input |-> [arg |-> RunTag(r) + i, sheet_name |-> "Tasks", limit |-> 1]]

\* What the model may answer to the i-th call of run r: one more read, or
\* the end of the turn with a text.
RunResponses(r, i) ==
  { [content |-> << RunToolUse(r, i) >>, stop_reason |-> "tool_use"],
    [content |-> << TextBlock("done " \o ToString(r)) >>, stop_reason |-> "end_turn"] }

NewLedger_inherited(rs, r) ==
  IF rs[3 - r].pc = "idle" THEN <<>> ELSE rs[3 - r].actions_taken

\* const actions_taken = [] (line 54): every call of runAgent has its own.
NewLedger(rs, r) == <<>>

\* The locals of a call of runAgent that has not started.
NotStarted ==
  [pc |-> "idle", iteration |-> 0, summary |-> "", actions_taken |-> <<>>,
   messages |-> <<>>, response |-> <<>>, returned |-> <<>>, modelCalls |-> 0]

RunsInit ==
  /\ env = "secret"
  /\ AgentIdle
  /\ store = [n \in SheetNames |-> [headers |-> <<"h">>, rows |-> << <<"a">> >>]]
  /\ headerCache = EmptyCache
  /\ lastRead = <<>>
  /\ repeated = FALSE
  /\ letterRun = <<>>
  /\ calls = <<>>
  /\ fetches = 0
  /\ writeLog = <<>>
  /\ runs = [r \in RunIds |-> NotStarted]
  /\ anthropic = <<>>

\* runAgent(formData) up to the loop (lines 43-56).
StartRun(r) ==
  /\ runs[r].pc = "idle"
  /\ anthropic' = getClient(anthropic)
  /\ runs' = [runs EXCEPT ![r] =
                [NotStarted EXCEPT !.pc = "loop",
                                   !.messages = << InitialTurnOf(r) >>,
                                   !.actions_taken = NewLedger(runs, r)]]
  /\ UNCHANGED <<env, request, http, pc, runVars, sheetVars, letterRun, callVars>>

\* iteration++ and the model call (lines 58-68).
RunCallModel(r) ==
  /\ runs[r].pc = "loop"
  /\ LoopCondition(runs[r].iteration)
  /\ runs' = [runs EXCEPT ![r].iteration = @ + 1, ![r].modelCalls = @ + 1,
                          ![r].pc = "awaiting_model"]
  /\ UNCHANGED <<env, request, http, pc, runVars, sheetVars, letterRun, callVars, anthropic>>

\* The loop condition fails: the return of lines 126-130.
RunReturnAtCeiling(r) ==
  /\ runs[r].pc = "loop"
  /\ ~LoopCondition(runs[r].iteration)
  /\ runs' = [runs EXCEPT ![r].pc = "done",
                          ![r].returned = << RunResult(runs[r].summary,
                                                       runs[r].actions_taken,
                                                       runs[r].iteration) >>]
  /\ UNCHANGED <<env, request, http, pc, runVars, sheetVars, letterRun, callVars, anthropic>>

\* The model call of run r resolves (lines 70-87 and 117-130).
RunModelResponds(r, resp) ==
  /\ runs[r].pc = "awaiting_model"
  /\ LET run == runs[r]
         withAssistant == Append(run.messages,
                                 [role |-> "assistant", content |-> resp.content])
         sum == NextSummary(run.summary, resp.content)
     IN  IF StopKind(resp) = "tools" /\ Len(FilterType(resp.content, "tool_use")) > 0
           THEN runs' = [runs EXCEPT ![r] =
                           [run EXCEPT !.messages = withAssistant, !.summary = sum,
                                       !.response = << resp >>, !.pc = "executing"]]
           ELSE runs' = [runs EXCEPT ![r] =
                           [run EXCEPT !.messages = withAssistant, !.summary = sum,
                                       !.pc = "done",
                                       !.returned = << RunResult(sum, run.actions_taken,
                                                                 run.iteration) >>]]
  /\ UNCHANGED <<env, request, http, pc, runVars, sheetVars, letterRun, callVars, anthropic>>

\* The model call of run r rejects: runAgent throws.
RunModelThrows(r) ==
  /\ runs[r].pc = "awaiting_model"
  /\ runs' = [runs EXCEPT ![r].pc = "thrown"]
  /\ UNCHANGED <<env, request, http, pc, runVars, sheetVars, letterRun, callVars, anthropic>>

\* The one tool_use block of the response is executed and its result pushed
\* as the user turn (lines 89-113); a read that succeeds has gone through
\* getHeaders of the shared cache.
RunExecBlock(r, outcome) ==
  /\ runs[r].pc = "executing"
  /\ LET run == runs[r]
         block == FilterType(run.response[1].content, "tool_use")[1]
         res == executeTool(block.name, block.input, outcome)
     IN  /\ outcome \in Outcomes(run.iteration, block.name)
         /\ runs' = [runs EXCEPT ![r] =
                       [run EXCEPT !.actions_taken =
                                     PushAction(@, ToolCallRecord(block, res)),
                                   !.messages =
                                     Append(@, UserTurn(<< ToolResultBlock(block, res) >>)),
                                   !.response = <<>>,
                                   !.pc = AfterBlock(res, FALSE)]]
         /\ headerCache' =
              IF outcome = "ok"
                THEN getHeaders(headerCache, CacheKey(block.input.sheet_name),
                                store[block.input.sheet_name]).cache
                ELSE headerCache
  /\ UNCHANGED <<env, request, http, pc, runVars, store, lastRead, repeated, letterRun,
                 callVars, anthropic>>

RunsNext ==
  \E r \in RunIds :
    \/ StartRun(r)
    \/ RunCallModel(r)
    \/ RunReturnAtCeiling(r)
    \/ \E resp \in RunResponses(r, runs[r].iteration) : RunModelResponds(r, resp)
    \/ RunModelThrows(r)
    \/ \E outcome \in {"ok", "fail"} : RunExecBlock(r, outcome)

RunsSpec == RunsInit /\ [][RunsNext]_vars

\* ------------------------------------------------------------------------
\* Properties
\* ------------------------------------------------------------------------
Last(s) == s[Len(s)]

\* Every response received so far asked for tools.
AllToolUse == \A k \in 1..Len(stops) : stops[k] = "tool_use"

\* The content of the i-th model response, as kept in the conversation.
ResponseContent(i) == messages[2 * i].content

ResponseToolUses(i) == FilterType(ResponseContent(i), "tool_use")

\* The joined text of the i-th response ("" when it has no text block).
ResponseText(i) ==
  LET tb == FilterType(ResponseContent(i), "text")
  IN  JoinLines([k \in 1..Len(tb) |-> tb[k].text])

HasTextBlock(i) == Len(FilterType(ResponseContent(i), "text")) > 0

\* The text of the most recent of the first i responses that has a text block.
RECURSIVE SummaryAfter(_)
SummaryAfter(i) ==
  IF i = 0 THEN ""
  ELSE IF HasTextBlock(i) THEN ResponseText(i)
  ELSE SummaryAfter(i - 1)

\* The number of executeTool calls made before the batch of response i.
BatchOffset(i) == batchStart[i]

\* The number of executeTool calls made between response i and the next one.
BatchSize(i) ==
  (IF i < Len(batchStart) THEN batchStart[i + 1] ELSE Len(executed)) - batchStart[i]

\* The user turn of the batch of response i has been appended.
BatchDone(i) == Len(messages) > 2 * i

\* A model call was made and rejected.
ModelCallFailed == modelCalls > Len(stops) /\ pc # "awaiting_model"

\* The value an Action Record holds, result or error.
RecordValue(rec) ==
  IF "error" \in DOMAIN rec THEN [error |-> rec.error] ELSE rec.result

\* C1: the number of model calls never exceeds 30; when every response asks
\* for tools the run does not throw, and what it returns has iteration_count 30
\* and the best-available summary (the last text, or the placeholder).
C1_IterationCeiling ==
  /\ modelCalls <= MAX_ITERATIONS
  /\ iteration <= MAX_ITERATIONS
  /\ (AllToolUse /\ modelCalls = Len(stops)) => pc # "thrown"
  /\ (AllToolUse /\ returned # <<>>) =>
       /\ Len(stops) = MAX_ITERATIONS
       /\ returned[1].iteration_count = MAX_ITERATIONS
       /\ returned[1].summary =
            (IF SummaryAfter(Len(stops)) = "" THEN Placeholder
             ELSE SummaryAfter(Len(stops)))

C1_Witness ==
  /\ pc = "responded"
  /\ AllToolUse
  /\ Len(stops) = MAX_ITERATIONS
  /\ returned # <<>>
  /\ returned[1].iteration_count = MAX_ITERATIONS
  /\ Len(http) = 1 /\ http[1].status = 200

\* C2: a step in which executeTool throws appends an Action Record with the
\* error message under error, puts {error: message} into the tool_result of
\* that invocation, does not end the run, and leaves runAgent in its loop.
C2_Step ==
  (pc = "executing" /\ Len(executed') = Len(executed) + 1 /\ Last(executed').threw) =>
    LET e == Last(executed')
        rec == Last(actions_taken')
        res == IF pc' = "executing" THEN Last(toolResults')
               ELSE Last(Last(messages').content)
    IN  /\ Len(actions_taken') = Len(actions_taken) + 1
        /\ DOMAIN rec = {"tool", "input", "error"}
        /\ rec.tool = e.name /\ rec.input = e.input /\ rec.error = e.message
        /\ res.tool_use_id = e.id
        /\ res.content = "{\"error\":\"" \o e.message \o "\"}"
        /\ pc' \in {"executing", "loop"}
        /\ returned' = <<>>

C2_ToolThrowContained == [][C2_Step]_vars

C2_Witness ==
  \E k \in 1..Len(executed) :
    /\ executed[k].threw
    /\ "error" \in DOMAIN actions_taken[k]
    /\ Len(stops) > executed[k].iter

\* C3: once the batch of a tool-requesting response is finished, every
\* tool_use block of the response was executed, in the order of the response,
\* and the batch added exactly one Action Record per block in that order,
\* whichever of them failed.
C3_WholeBatchInOrder ==
  \A i \in 1..Len(stops) :
    (stops[i] = "tool_use" /\ BatchDone(i)) =>
      LET B == ResponseToolUses(i)
          off == BatchOffset(i)
      IN  /\ BatchSize(i) = Len(B)
          /\ Len(actions_taken) >= off + Len(B)
          /\ \A p \in 1..Len(B) :
               /\ executed[off + p].iter = i
               /\ executed[off + p].pos = p
               /\ executed[off + p].id = B[p].id
               /\ actions_taken[off + p].tool = B[p].name
               /\ actions_taken[off + p].input = B[p].input

C3_Witness ==
  /\ pc = "loop"
  /\ \E i \in 1..Len(stops) :
       /\ BatchDone(i)
       /\ Len(ResponseToolUses(i)) = 3
       /\ ~executed[BatchOffset(i) + 1].threw
       /\ executed[BatchOffset(i) + 2].threw
       /\ ~executed[BatchOffset(i) + 3].threw
       /\ Len(actions_taken) = BatchOffset(i) + 3

\* C4: actions_taken has one record per executeTool call made so far, in the
\* order of the calls (by response, then by position); a step only appends to
\* it; the returned actions_taken is the ledger.
C4_LedgerInv ==
  /\ Len(actions_taken) = Len(executed)
  /\ \A k \in 1..Len(executed) :
       /\ actions_taken[k].tool = executed[k].name
       /\ actions_taken[k].input = executed[k].input
       /\ k > 1 =>
            \/ executed[k - 1].iter < executed[k].iter
            \/ /\ executed[k - 1].iter = executed[k].iter
               /\ executed[k - 1].pos + 1 = executed[k].pos
  /\ returned # <<>> => returned[1].actions_taken = actions_taken

C4_LedgerStep ==
  /\ Len(actions_taken') >= Len(actions_taken)
  /\ Len(actions_taken') <= Len(actions_taken) + 1
  /\ SubSeq(actions_taken', 1, Len(actions_taken)) = actions_taken

C4_AppendOnlyLedger == []C4_LedgerInv /\ [][C4_LedgerStep]_vars

C4_Witness ==
  /\ returned # <<>>
  /\ Len(returned[1].actions_taken) >= MaxBatch + 2
  /\ \E k \in 1..Len(executed) : executed[k].threw

\* C5: executeTool never throws, whatever the tool and whatever the
\* underlying operation does.
C5_ExecuteToolNeverThrows ==
  \A k \in 1..Len(executed) : ~executed[k].threw

\* C6: a step that executes a tool outside the five known ones does not
\* throw, invokes no Sheets, Gmail or Drive operation, records the result
\* {error: "Unknown tool: <name>"}, feeds it back, and the loop goes on.
C6_Step ==
  (pc = "executing" /\ Len(executed') = Len(executed) + 1
     /\ Last(executed').name \notin KnownTools) =>
    LET e == Last(executed')
        rec == Last(actions_taken')
        res == IF pc' = "executing" THEN Last(toolResults')
               ELSE Last(Last(messages').content)
    IN  /\ ~e.threw
        /\ e.ops = <<>>
        /\ opsLog' = opsLog
        /\ DOMAIN rec = {"tool", "input", "result"}
        /\ rec.result = [error |-> "Unknown tool: " \o e.name]
        /\ res.tool_use_id = e.id
        /\ res.content = "{\"error\":\"Unknown tool: " \o e.name \o "\"}"
        /\ pc' \in {"executing", "loop"}
        /\ returned' = <<>>

C6_UnknownTool == [][C6_Step]_vars

C6_Witness ==
  \E k \in 1..Len(executed) :
    /\ executed[k].name = UnknownTool
    /\ Len(stops) > executed[k].iter
    /\ opsLog = <<>>

\* C7: runAgent throws exactly when a model call was rejected, and then it
\* returns nothing and the handler answers with one 500 AGENT_ERROR response;
\* a failed tool execution never makes runAgent throw.
C7_OnlyModelCallFatal ==
  /\ pc = "thrown" => ModelCallFailed
  /\ ModelCallFailed => (pc \in {"thrown", "responded"} /\ returned = <<>>)
  /\ (pc = "responded" /\ ModelCallFailed) =>
       http = << HttpError(500, "AGENT_ERROR", "Agent error: model call failed") >>
  /\ \A k \in 1..Len(http) : http[k].status = 500 => ModelCallFailed
  /\ Len(http) <= 1

C7_Witness ==
  /\ pc = "responded"
  /\ ModelCallFailed
  /\ http[1].status = 500
  /\ \E k \in 1..Len(executed) : executed[k].threw

\* C8: the summary runAgent returns is never the empty string, and it is the
\* placeholder when no response produced any text.
C8_SummaryNonEmpty ==
  returned # <<>> =>
    /\ returned[1].summary # ""
    /\ (\A i \in 1..Len(stops) : ResponseText(i) = "") =>
         returned[1].summary = Placeholder

C8_Witness ==
  /\ returned # <<>>
  /\ Len(stops) >= 2
  /\ \A i \in 1..Len(stops) : ResponseText(i) = ""
  /\ returned[1].summary = Placeholder

\* C9: the returned summary is the text of the most recent response that
\* contained text: a later response whose text is empty does not clear it, a
\* later non-empty text replaces it.
C9_LastWriteWins ==
  returned # <<>> =>
    \A i \in 1..Len(stops) :
      (ResponseText(i) # "" /\ \A j \in (i + 1)..Len(stops) : ResponseText(j) = "")
        => returned[1].summary = ResponseText(i)

\* C10: the conversation alternates user and assistant turns; a model call is
\* made only when the turn of the previous batch is there; the turn after a
\* tool-requesting response holds one tool_result per tool_use block of the
\* response, in order, with the block's id and the serialized value of the
\* matching Action Record.
C10_BatchTurn ==
  /\ \A j \in 1..Len(messages) :
       messages[j].role = (IF j % 2 = 1 THEN "user" ELSE "assistant")
  /\ pc = "awaiting_model" => Len(messages) = 2 * iteration - 1
  /\ \A i \in 1..Len(stops) :
       (stops[i] = "tool_use" /\ (i < Len(stops) \/ pc # "executing")) =>
         /\ BatchDone(i)
         /\ LET B == ResponseToolUses(i)
                off == BatchOffset(i)
                turn == messages[2 * i + 1]
            IN  /\ Len(turn.content) = Len(B)
                /\ \A p \in 1..Len(B) :
                     /\ turn.content[p].type = "tool_result"
                     /\ turn.content[p].tool_use_id = B[p].id
                     /\ turn.content[p].content =
                          JSONstringify(RecordValue(actions_taken[off + p]))

C10_Witness ==
  /\ pc = "awaiting_model"
  /\ iteration = 2
  /\ Len(messages[3].content) = 3
  /\ \E k \in 1..Len(executed) : executed[k].threw
  /\ \E k \in 1..Len(executed) : ~executed[k].threw

\* C11: model calls are sequential and gated on the batch.  At most one model
\* call is in flight, none while tools run, and a call is issued only from the
\* top of the loop: when a call is in flight after a response, every tool
\* invocation of that response has settled and the one user turn holding a
\* result for each of them has been appended.
C11_Inv ==
  /\ modelCalls - Len(stops) \in {0, 1}
  /\ pc = "awaiting_model" => modelCalls = Len(stops) + 1
  /\ pc = "executing" => modelCalls = Len(stops)
  /\ (pc = "awaiting_model" /\ Len(stops) > 0) =>
       LET i == Len(stops)
       IN  /\ Last(stops) = "tool_use"
           /\ idx = 0 /\ toolResults = <<>> /\ response = <<>>
           /\ BatchDone(i)
           /\ Len(messages) = 2 * i + 1
           /\ BatchSize(i) = Len(ResponseToolUses(i))
           /\ Last(messages).role = "user"
           /\ Len(Last(messages).content) = Len(ResponseToolUses(i))

C11_Step ==
  modelCalls' # modelCalls =>
    /\ pc = "loop" /\ pc' = "awaiting_model"
    /\ modelCalls = Len(stops)
    /\ modelCalls' = modelCalls + 1

C11_SequentialGated == []C11_Inv /\ [][C11_Step]_vars

\* A second model call is in flight after a batch of two invocations of
\* which one failed.
C11_Witness ==
  /\ pc = "awaiting_model"
  /\ Len(stops) = 1
  /\ BatchSize(1) = 2
  /\ \E k \in 1..Len(executed) : executed[k].threw
  /\ \E k \in 1..Len(executed) : ~executed[k].threw

\* C12: once a response carries stop_reason end_turn or any stop_reason other
\* than tool_use, the run is done: no further model call, no tool executed and
\* no Action Record added for that response, whatever blocks it holds, and the
\* run has returned the ledger and the summary accumulated so far.
C12_StopGoesToDone ==
  (Len(stops) > 0 /\ Last(stops) # "tool_use") =>
    LET i == Len(stops)
    IN  /\ pc \in {"done", "responded"}
        /\ modelCalls = i
        /\ BatchSize(i) = 0
        /\ Len(actions_taken) = BatchOffset(i)
        /\ Len(messages) = 2 * i
        /\ returned # <<>>
        /\ returned[1].summary =
             (IF SummaryAfter(i) = "" THEN Placeholder ELSE SummaryAfter(i))
        /\ returned[1].actions_taken = actions_taken

\* The run ended on a max_tokens response that still held a tool_use block,
\* after an earlier batch.
C12_Witness ==
  /\ pc = "done"
  /\ Len(stops) = 2
  /\ Last(stops) = "max_tokens"
  /\ Len(ResponseToolUses(2)) = 1
  /\ Len(actions_taken) = 1
  /\ returned[1].summary = "b"

\* C13: a returned run has iteration_count 30, and has logged the
\* degraded-completion warning, if and only if the ceiling stopped it while
\* every response, the 30th included, still asked for tools.
C13_DegradedIffCeiling ==
  returned # <<>> =>
    LET degraded == AllToolUse /\ Len(stops) = MAX_ITERATIONS
    IN  /\ returned[1].iteration_count = MAX_ITERATIONS <=> degraded
        /\ (\E k \in 1..Len(log) : log[k] = "max_iterations") <=> degraded

\* ------------------------------------------------------------------------
\* Properties of readRows
\* ------------------------------------------------------------------------
\* The last call: its sheet, its arguments and what it returned.
ReadSheet == store[lastRead[1].sheet]

ReadArgs == lastRead[1].args

ReadResult == lastRead[1].result

ReadLimit == IF ReadArgs.limit = <<>> THEN DefaultLimit ELSE ReadArgs.limit[1]

Reverse(seq) == [k \in 1..Len(seq) |-> seq[Len(seq) + 1 - k]]

\* The cell of data row k under header col: the cell of the column of that
\* name, "" when the row is too short or no column has the name.
CellOf(k, col) ==
  IF \E j \in 1..Len(ReadSheet.headers) : ReadSheet.headers[j] = col
    THEN LET j == HeaderColumn(ReadSheet.headers, col)
         IN  IF j <= Len(ReadSheet.rows[k]) THEN ReadSheet.rows[k][j] ELSE ""
    ELSE ""

\* The data rows the last call's filter lets through, by position in the sheet.
Passing ==
  { k \in 1..Len(ReadSheet.rows) :
      FilterGiven(ReadArgs) =>
        PassesFilter(RowObject(ReadSheet.headers, ReadSheet.rows[k], k), ReadArgs) }

\* C14: total_found is the number of rows that pass the filter, counted before
\* truncation, and rows holds the first min(limit, total_found) rows of the
\* filtered and sorted sequence, with limit 10 when the caller gives none.
C14_TotalAndTruncation ==
  lastRead # <<>> =>
    LET whole == readRows(ReadSheet.headers, ReadSheet.rows,
                          [ReadArgs EXCEPT !.limit = << Len(ReadSheet.rows) >>])
    IN  /\ ReadResult.total_found = Cardinality(Passing)
        /\ Len(whole.rows) = ReadResult.total_found
        /\ Len(ReadResult.rows) = Min(ReadLimit, ReadResult.total_found)
        /\ ReadResult.rows = SubSeq(whole.rows, 1, Min(ReadLimit, ReadResult.total_found))

\* A filtered call with limit 1 on a sheet where two rows match.
C14_Witness ==
  /\ lastRead # <<>>
  /\ FilterGiven(ReadArgs)
  /\ ReadArgs.limit = <<1>>
  /\ ReadResult.total_found = 2
  /\ Len(ReadSheet.rows) = 3
  /\ Len(ReadResult.rows) = 1

\* C15: row_numbers lists the row numbers of the whole filtered and sorted
\* set: it has total_found entries even when rows is cut to limit.
C15_RowNumbersUntruncated ==
  lastRead # <<>> => Len(ReadResult.row_numbers) = ReadResult.total_found

\* C16: every returned row object has exactly the sheet's headers as keys,
\* each mapped to the cell of that column ("" when the cell is missing), also
\* when a column is named _rowNumber; the annotation is not among the values.
C16_RowsCarryAllHeaders ==
  lastRead # <<>> =>
    \A p \in 1..Len(ReadResult.rows) :
      /\ DOMAIN ReadResult.rows[p] = Range(ReadSheet.headers)
      /\ "num" \in DOMAIN ReadResult.row_numbers[p]
      /\ LET k == ReadResult.row_numbers[p].num - 1
         IN  \A h \in Range(ReadSheet.headers) :
               \E j \in 1..Len(ReadSheet.headers) :
                 /\ ReadSheet.headers[j] = h
                 /\ ReadResult.rows[p][h] =
                      (IF j <= Len(ReadSheet.rows[k]) THEN ReadSheet.rows[k][j] ELSE "")

\* C17: with filter_column and filter_value given, exactly the rows whose cell
\* in that column equals the filter value up to letter case are kept; a filter
\* column that is not a header matches no row for a non-empty filter value.
C17_FilterExactIgnoringCase ==
  (lastRead # <<>> /\ FilterGiven(ReadArgs)) =>
    LET col == ReadArgs.filter_column[1]
        expected == { k \in 1..Len(ReadSheet.rows) :
                        toLowerCase(CellOf(k, col)) = toLowerCase(ReadArgs.filter_value[1]) }
    IN  /\ ReadResult.total_found = Cardinality(expected)
        /\ \A p \in 1..Len(ReadResult.row_numbers) :
             "num" \in DOMAIN ReadResult.row_numbers[p] =>
               (ReadResult.row_numbers[p].num - 1) \in expected

\* Data row j comes before data row k in the order the last call asked for:
\* by the collation of the cells of the sort column, ascending for 'asc' and
\* descending otherwise, rows with equal cells in sheet order.
SortsBefore(j, k) ==
  LET col == ReadArgs.sort_by[1]
      rj == CollationRank(CellOf(j, col))
      rk == CollationRank(CellOf(k, col))
  IN  \/ rj = rk /\ j < k
      \/ rj # rk /\ (IF ReadArgs.sort_order = <<"asc">> THEN rj < rk ELSE rj > rk)

\* C18: with sort_by naming a column, the filtered rows are ordered by string
\* comparison of that column's values, ascending for 'asc' and descending
\* otherwise, and rows with equal values keep their sheet order: the row
\* returned at position p is the passing row that exactly p - 1 passing rows
\* come before.
C18_SortedStable ==
  (/\ lastRead # <<>>
   /\ ReadArgs.sort_by # <<>>
   /\ \E j \in 1..Len(ReadSheet.headers) : ReadSheet.headers[j] = ReadArgs.sort_by[1]) =>
    \A p \in 1..Len(ReadResult.rows) :
      \E k \in Passing :
        /\ Cardinality({ j \in Passing : SortsBefore(j, k) }) = p - 1
        /\ ReadResult.rows[p] =
             StripRowNumber(RowObject(ReadSheet.headers, ReadSheet.rows[k], k))
        /\ ReadResult.row_numbers[p] =
             RowNumberOf(RowObject(ReadSheet.headers, ReadSheet.rows[k], k))

\* A descending sort (the default) of three rows of which two tie: the tied
\* rows come last, in sheet order.
C18_Witness ==
  /\ lastRead # <<>>
  /\ ReadArgs.sort_by = <<"h">> /\ ReadArgs.sort_order = <<>>
  /\ ~FilterGiven(ReadArgs) /\ ReadArgs.limit = <<>>
  /\ ReadSheet.headers = <<"h", "k">>
  /\ ReadSheet.rows = << <<"a", "2">>, <<"b", "a">>, <<"a", "b">> >>
  /\ ReadResult.row_numbers = << [num |-> 3], [num |-> 2], [num |-> 4] >>

\* The last call was an ascending sort that the limit did not cut.
AscendingUncut ==
  /\ lastRead # <<>>
  /\ ReadArgs.sort_by # <<>>
  /\ ReadArgs.sort_order = <<"asc">>
  /\ ReadLimit >= ReadResult.total_found

\* What the same call returns with sort_order 'desc'.
DescendingResult ==
  readRows(ReadSheet.headers, ReadSheet.rows, [ReadArgs EXCEPT !.sort_order = <<"desc">>])

\* No two rows that pass the filter have equal values in the sort column.
DistinctSortValues ==
  \A j, k \in Passing :
    j # k => CollationRank(CellOf(j, ReadArgs.sort_by[1]))
               # CollationRank(CellOf(k, ReadArgs.sort_by[1]))

\* C19 as stated: for every data set, equal sort values included, the rows
\* and row_numbers of the 'asc' call are the reverse of those of the 'desc'
\* call.
C19_ReverseAlways ==
  AscendingUncut =>
    /\ ReadResult.rows = Reverse(DescendingResult.rows)
    /\ ReadResult.row_numbers = Reverse(DescendingResult.row_numbers)

\* C19, amended: the rows and row_numbers of the 'asc' call are the reverse of
\* those of the 'desc' call whenever no two matching rows have equal values in
\* the sort column (rows with equal values keep their sheet order in both
\* directions).
C19_ReverseWhenDistinct ==
  (AscendingUncut /\ DistinctSortValues) =>
    /\ ReadResult.rows = Reverse(DescendingResult.rows)
    /\ ReadResult.row_numbers = Reverse(DescendingResult.row_numbers)

\* An ascending sort of three rows with three different sort values.
C19_Witness ==
  /\ AscendingUncut
  /\ ReadArgs.sort_by = <<"h">>
  /\ ReadSheet.headers = <<"h", "k">>
  /\ ReadResult.total_found = 3
  /\ DistinctSortValues
  /\ ReadResult.row_numbers # DescendingResult.row_numbers

\* C20: readRows changes no cell of the store, and a call with the arguments
\* of the call before it returns the same rows, total_found and row_numbers.
C20_Step ==
  /\ store' = store
  /\ (/\ lastRead # <<>> /\ lastRead' # <<>>
      /\ lastRead'[1].sheet = lastRead[1].sheet
      /\ lastRead'[1].args = lastRead[1].args) =>
       /\ lastRead'[1].result.rows = lastRead[1].result.rows
       /\ lastRead'[1].result.total_found = lastRead[1].result.total_found
       /\ lastRead'[1].result.row_numbers = lastRead[1].result.row_numbers

LetterReturned == letterRun # <<>> /\ letterRun.n < 0

\* C25: colIndexToLetter returns the standard column name of the 0-based
\* index: letters A to Z only, denoting index + 1 in bijective base 26 (so two
\* indices never get the same name), with 0 -> A, 25 -> Z, 26 -> AA, 27 -> AB,
\* 701 -> ZZ, 702 -> AAA; every turn of the loop lowers n and never below -1,
\* so the loop ends.
C25_Inv ==
  LetterReturned =>
    /\ \A k \in 1..Len(letterRun.letter) : letterRun.letter[k] \in 65..90
    /\ Len(letterRun.letter) >= 1
    /\ ColumnNumber(letterRun.letter) = letterRun.index + 1
    /\ letterRun.letter = colIndexToLetter(letterRun.index)
    /\ letterRun.index = 0 => letterRun.letter = <<65>>
    /\ letterRun.index = 25 => letterRun.letter = <<90>>
    /\ letterRun.index = 26 => letterRun.letter = <<65, 65>>
    /\ letterRun.index = 27 => letterRun.letter = <<65, 66>>
    /\ letterRun.index = 701 => letterRun.letter = <<90, 90>>
    /\ letterRun.index = 702 => letterRun.letter = <<65, 65, 65>>

C25_Step ==
  letterRun' # letterRun => (letterRun'.n < letterRun.n /\ letterRun'.n >= -1)

C25_ColumnLetters == []C25_Inv /\ [][C25_Step]_vars

\* The call for index 702 has returned AAA after three turns of the loop.
C25_Witness ==
  /\ LetterReturned
  /\ letterRun.index = 702
  /\ Len(letterRun.letter) = 3

\* ------------------------------------------------------------------------
\* Properties of the row operations
\* ------------------------------------------------------------------------
\* Caller p's operation op has just returned in this step.
Returns(p, op) ==
  /\ calls[p].pc \in {"calling", "writing"}
  /\ calls'[p].pc = "returned"
  /\ calls[p].op = op

\* The cell at row r (row 1 is the header row) and column c of a sheet, ""
\* when the sheet has no such cell.
CellAt(sheet, r, c) ==
  IF r = 1
    THEN (IF c <= Len(sheet.headers) THEN sheet.headers[c] ELSE "")
    ELSE IF r - 1 <= Len(sheet.rows) /\ c <= Len(sheet.rows[r - 1])
           THEN sheet.rows[r - 1][c] ELSE ""

\* Rows and columns that cover every cell of the explored sheets.
GridRows == 1..12

GridColumns == 1..3

\* The update requests of caller p that the store has carried out.
WritesOf(p) == SelectSeq(writeLog, LAMBDA w : w.caller = p /\ w.kind = "update")

\* C21: a successful appendRow adds exactly one row and changes no other; the
\* new row has one cell per header of the header sequence the operation got
\* from the cache, cell j holding String(values[header j]) when that key is
\* present and not null and '' otherwise, so keys that match no header are
\* dropped.
C21_Step ==
  \A p \in Callers :
    Returns(p, "appendRow") =>
      LET sheet == store[calls[p].sheet]
          after == store'[calls[p].sheet]
          headers == calls[p].headers[1]
          values == calls[p].values
          newRow == after.rows[Len(after.rows)]
      IN  /\ Len(after.rows) = Len(sheet.rows) + 1
          /\ after.headers = sheet.headers
          /\ \A k \in 1..Len(sheet.rows) : after.rows[k] = sheet.rows[k]
          /\ Len(newRow) = Len(headers)
          /\ \A j \in 1..Len(headers) :
               IF \E e \in Range(values) : e[1] = headers[j] /\ e[2].t # "null"
                 THEN \E e \in Range(values) :
                        /\ e[1] = headers[j]
                        /\ e[2].t = "str" => newRow[j] = e[2].v
                        /\ e[2].t = "num" => newRow[j] = ToString(e[2].n)
                 ELSE newRow[j] = ""

C21_AppendAligned == [][C21_Step]_vars

\* An append of {k: null, h: 'x'} under the headers h, k has put the row
\* ['x', ''] behind the one row the sheet had.
C21_Witness ==
  \E p \in Callers :
    /\ calls[p].pc = "returned" /\ calls[p].op = "appendRow"
    /\ calls[p].values = << <<"k", NullVal>>, <<"h", StrVal("x")>> >>
    /\ calls[p].headers = << <<"h", "k">> >>
    /\ store[calls[p].sheet].rows = << <<"a", "b">>, <<"x", "">> >>

\* C22: the row_number a successful appendRow returns is the physical row at
\* which the store inserted the row, read from the range the store reported:
\* the row just appended is the one that row number addresses.
C22_Step ==
  \A p \in Callers :
    Returns(p, "appendRow") =>
      LET after == store'[calls[p].sheet]
          res == calls'[p].result[1]
      IN  /\ res.success
          /\ res.sheet_name = calls[p].sheet
          /\ res.row_number = << Len(after.rows) + 1 >>
          /\ \A c \in GridColumns :
               CellAt(after, res.row_number[1], c)
                 = (IF c <= Len(after.rows[Len(after.rows)])
                      THEN after.rows[Len(after.rows)][c] ELSE "")

C22_AppendRowNumber == [][C22_Step]_vars

\* An append to a sheet of a header row and nine data rows has returned row
\* number 11.
C22_Witness ==
  \E p \in Callers :
    /\ calls[p].pc = "returned" /\ calls[p].op = "appendRow"
    /\ calls[p].result[1].row_number = <<11>>
    /\ Len(store[calls[p].sheet].rows) = 10

\* C23: updated_columns of an updateRow lists exactly the keys of values that
\* are headers of the sequence taken from the cache, in the order of the keys;
\* a key that is no such header causes no cell write and no error.
C23_UpdatedColumns ==
  \A p \in Callers :
    (calls[p].op = "updateRow" /\ calls[p].pc = "returned") =>
      LET headers == calls[p].headers[1]
          values == calls[p].values
          res == calls[p].result[1]
          known == { j \in 1..Len(values) : values[j][1] \in Range(headers) }
      IN  /\ res.success
          /\ res.row_number = calls[p].rowNumber
          /\ Len(res.updated_columns) = Cardinality(known)
          /\ \A j \in known :
               res.updated_columns[Cardinality({ i \in known : i <= j })] = values[j][1]
          /\ Len(WritesOf(p)) = Cardinality(known)
          /\ ~calls[p].failed

\* An update with a key zz that is no header has returned: one column
\* updated, one cell written.
C23_Witness ==
  \E p \in Callers :
    /\ calls[p].op = "updateRow" /\ calls[p].pc = "returned"
    /\ calls[p].values = << <<"zz", StrVal("y")>>, <<"h", NumVal(5)>> >>
    /\ calls[p].result[1].updated_columns = << "h" >>
    /\ Len(WritesOf(p)) = 1

\* C24: updateRow issues exactly one cell write per resolved header, addressed
\* to the sheet, the column letter of the header's position and rowNumber; it
\* returns only when all of them have finished; a cell write changes the
\* addressed cell and no other cell of the sheet.
C24_Inv ==
  \A p \in Callers :
    (calls[p].op = "updateRow" /\ calls[p].headers # <<>>) =>
      LET headers == calls[p].headers[1]
          values == calls[p].values
          known == { j \in 1..Len(values) : values[j][1] \in Range(headers) }
      IN  /\ Cardinality(calls[p].issued) = Cardinality(known)
          /\ \A j \in known :
               \E req \in calls[p].issued :
                 /\ req.range[1] = calls[p].sheet
                 /\ req.range[3] = calls[p].rowNumber
                 /\ ColumnNumber(req.range[2]) \in 1..Len(headers)
                 /\ headers[ColumnNumber(req.range[2])] = values[j][1]
                 /\ \A c \in 1..(ColumnNumber(req.range[2]) - 1) : headers[c] # values[j][1]
          /\ calls[p].pc = "returned" =>
               /\ calls[p].pending = {}
               /\ { [range |-> WritesOf(p)[k].range, value |-> WritesOf(p)[k].value] :
                      k \in 1..Len(WritesOf(p)) } = calls[p].issued

C24_Step ==
  (Len(writeLog') = Len(writeLog) + 1 /\ writeLog'[Len(writeLog')].kind = "update") =>
    LET w == writeLog'[Len(writeLog')]
    IN  \A n \in SheetNames, r \in GridRows, c \in GridColumns :
          CellAt(store'[n], r, c) =
            (IF n = w.range[1] /\ r = w.range[3] /\ c = ColumnNumber(w.range[2])
               THEN w.value ELSE CellAt(store[n], r, c))

C24_CellWrites == []C24_Inv /\ [][C24_Step]_vars

\* An update of row 2 with {k: null, h: 'x'} under the headers h, k has
\* returned after its two writes, to B2 and to A2.
C24_Witness ==
  \E p \in Callers :
    /\ calls[p].op = "updateRow" /\ calls[p].pc = "returned"
    /\ calls[p].rowNumber = 2
    /\ calls[p].headers = << <<"h", "k">> >>
    /\ Len(WritesOf(p)) = 2
    /\ WritesOf(p)[1].range = << "Tasks", <<66>>, 2 >>
    /\ WritesOf(p)[2].range = << "Tasks", <<65>>, 2 >>

\* C26: the header row of a key is fetched only by an operation that finds no
\* cache entry for the key when it starts; an entry is never removed; an
\* operation that finds an entry takes its headers from it and fetches nothing,
\* also when the header row of the sheet has been edited since.
C26_Inv ==
  \A p \in Callers :
    /\ calls[p].hit => calls[p].pc # "fetching"
    /\ (calls[p].pc = "fetching" /\ calls[p].headers = <<>>) \/ calls[p].pc = "idle"
         \/ calls[p].headers # <<>> \/ calls[p].failed

C26_Step ==
  /\ \A key \in CacheKeys : headerCache[key] # <<>> => headerCache'[key] # <<>>
  /\ \A p \in Callers :
       (calls[p].pc = "idle" /\ calls'[p].pc # "idle") =>
         IF headerCache[CacheKey(calls'[p].sheet)] # <<>>
           THEN /\ fetches' = fetches
                /\ calls'[p].hit
                /\ calls'[p].headers = headerCache[CacheKey(calls'[p].sheet)]
           ELSE /\ fetches' = fetches + 1
                /\ calls'[p].pc = "fetching"
  /\ (\A p \in Callers : calls[p].pc # "idle" \/ calls'[p].pc = "idle") =>
       fetches' = fetches
  /\ store' # store /\ calls' = calls => headerCache' = headerCache

C26_LazyCache == []C26_Inv /\ [][C26_Step]_vars

\* After one fetch filled the cache, the header row was edited by hand and a
\* later appendRow still worked with the cached headers, without a fetch.
C26_Witness ==
  /\ fetches = 1
  /\ \E p \in Callers :
       /\ calls[p].hit /\ calls[p].pc = "returned" /\ calls[p].op = "appendRow"
       /\ calls[p].headers = << <<"h", "k">> >>
       /\ store[calls[p].sheet].headers = EditedHeaderRow

\* C27: once a key has a cache entry, the entry is never replaced by a
\* different header sequence, whatever the interleaving of operations that
\* missed the cache and of edits of the header row.
C27_Step ==
  \A key \in CacheKeys :
    headerCache[key] # <<>> => headerCache'[key] = headerCache[key]

C27_AppendOnlyCache == [][C27_Step]_vars

\* C28: an operation of which a store call failed (header fetch, row fetch,
\* append or cell write) has thrown and has no result; an operation that
\* returned a result had no failing store call.
C28_FailuresPropagate ==
  \A p \in Callers :
    /\ calls[p].failed => (calls[p].pc = "thrown" /\ calls[p].result = <<>>)
    /\ calls[p].pc = "returned" => (~calls[p].failed /\ calls[p].result # <<>>)
    /\ calls[p].pc = "thrown" => calls[p].failed

\* An updateRow threw on a failed cell write after its other write had gone
\* through, and a readRows threw on a failed fetch.
C28_Witness ==
  /\ calls["c1"].op = "updateRow" /\ calls["c1"].pc = "thrown"
  /\ Len(WritesOf("c1")) = 1 /\ calls["c1"].pending = {}
  /\ calls["c2"].op = "readRows" /\ calls["c2"].pc = "thrown"

\* ------------------------------------------------------------------------
\* Properties of the dispatch
\* ------------------------------------------------------------------------
\* The arguments a call of executeTool is to hand to its operation: the
\* fields of the tool input the operation takes, in its order; <<>> stands for
\* a field the input does not have.
ExpectedArgs(e) ==
  CASE e.name = "sheets_read_rows" ->
         << << e.input.sheet_name >>,
            [filter_column |-> <<>>, filter_value |-> <<>>,
             limit |-> << e.input.limit >>, sort_by |-> <<>>, sort_order |-> <<>>] >>
    [] e.name = "sheets_append_row" -> << << e.input.sheet_name >>, << e.input.values >> >>
    [] e.name = "sheets_update_row" ->
         << << e.input.sheet_name >>, << e.input.row_number >>, << e.input.values >> >>
    [] e.name = "gmail_send" ->
         << << e.input.to >>, << e.input.subject >>, << e.input.body >>, <<>> >>
    [] e.name = "drive_create_doc" ->
         << << e.input.folder_id >>, << e.input.title >>, << e.input.content >> >>

ExpectedOp(name) ==
  CASE name = "sheets_read_rows"  -> "readRows"
    [] name = "sheets_append_row" -> "appendRow"
    [] name = "sheets_update_row" -> "updateRow"
    [] name = "gmail_send"        -> "sendEmail"
    [] name = "drive_create_doc"  -> "createDoc"

\* C30: every call of executeTool with one of the five tool names invokes its
\* one operation (readRows, appendRow, updateRow, sendEmail, createDoc), once,
\* with the arguments of the tool input, and no other operation; the
\* operations invoked in a run are those of its executeTool calls, in order.
C30_Inv ==
  \A k \in 1..Len(executed) :
    IF executed[k].name \in KnownTools
      THEN executed[k].ops = << [op |-> ExpectedOp(executed[k].name),
                                 args |-> ExpectedArgs(executed[k])] >>
      ELSE executed[k].ops = <<>>

C30_Step ==
  /\ Len(executed') = Len(executed) + 1 =>
       opsLog' = opsLog \o executed'[Len(executed')].ops
  /\ Len(executed') = Len(executed) => opsLog' = opsLog

C30_FixedDispatch == []C30_Inv /\ [][C30_Step]_vars

\* sheets_update_row was dispatched to updateRow('Tasks', 2, values), which
\* threw, and sheets_read_rows to readRows in the next iteration.
C30_Witness ==
  /\ Len(executed) = 2
  /\ executed[1].name = "sheets_update_row" /\ executed[1].threw
  /\ executed[1].ops[1].args = << <<"Tasks">>, <<2>>, <<"v">> >>
  /\ executed[2].name = "sheets_read_rows"
  /\ opsLog[2].op = "readRows"

\* ------------------------------------------------------------------------
\* Properties of interleaved runs
\* ------------------------------------------------------------------------
\* The ids the model uses in what it sends to run r.
TagsOf(r) == (RunTag(r) + 1)..(RunTag(r) + 999)

\* Turn k (k > 1) of a conversation holds only blocks of run r.
TurnBelongsTo(turn, r) ==
  \A j \in 1..Len(turn.content) :
    LET block == turn.content[j]
    IN  CASE block.type = "tool_use" -> block.id \in TagsOf(r) /\ block.input.arg \in TagsOf(r)
          [] block.type = "tool_result" -> block.tool_use_id \in TagsOf(r)
          [] block.type = "text" -> block.text = "done " \o ToString(r)

\* The conversation, the ledger and the counter of every run are its own.
RunsOwnTheirState ==
  \A r \in RunIds :
    runs[r].pc # "idle" =>
      /\ runs[r].messages[1] = InitialTurnOf(r)
      /\ \A k \in 2..Len(runs[r].messages) : TurnBelongsTo(runs[r].messages[k], r)
      /\ \A k \in 1..Len(runs[r].actions_taken) :
           runs[r].actions_taken[k].input.arg = RunTag(r) + k
      /\ runs[r].iteration = runs[r].modelCalls
      /\ Len(runs[r].actions_taken) <= runs[r].modelCalls
      /\ runs[r].returned # <<>> =>
           /\ runs[r].returned[1].iteration_count = runs[r].modelCalls
           /\ runs[r].returned[1].actions_taken = runs[r].actions_taken

\* A step changes the locals of one run at most.
OneRunSteps ==
  \A r \in RunIds :
    runs'[r] # runs[r] => \A q \in RunIds \ {r} : runs'[q] = runs[q]

\* C29 as stated: each run's conversation, ledger and iteration count are its
\* own, and the header cache is the only state of the process that a step of
\* a run changes for the other run to see.
C29_StepAsStated == OneRunSteps /\ anthropic' = anthropic

C29_Step ==
  /\ OneRunSteps
  /\ anthropic' # anthropic =>
       /\ anthropic = <<>> /\ anthropic' # <<>>
       /\ \E r \in RunIds : runs[r].pc = "idle" /\ runs'[r].pc = "loop"
  /\ \A r \in RunIds : (runs[r].pc = "idle" /\ runs'[r].pc = "loop") => anthropic' # <<>>

RunStarted == messages # <<>>

\* AHP_API_KEY is configured and the x-api-key header equals it.
KeyMatches == env \notin {"unset", "PLACEHOLDER"} /\ request[1].key = env

NothingRan == modelCalls = 0 /\ executed = <<>> /\ opsLog = <<>>

\* C31: the agent runs only for a POST request whose x-api-key equals a
\* configured AHP_API_KEY and whose body passes validation.  The checks come in
\* the order method, auth, validation: a request that is not a POST is answered
\* 204 or 405 whatever its key, a POST with a wrong key (or with AHP_API_KEY
\* unset or 'PLACEHOLDER') is answered 401 whatever its body, an authorized POST
\* without form_data is answered 400, and in all these cases no model call is
\* made and no tool is executed.
C31_HandlerGate ==
  /\ (RunStarted \/ ~NothingRan) =>
       /\ request # <<>>
       /\ request[1].method = "POST"
       /\ KeyMatches
       /\ validateRequest(request[1].body).valid
  /\ (pc = "responded" /\ request[1].method # "POST") =>
       /\ http = << HttpError(IF request[1].method = "OPTIONS" THEN 204 ELSE 405, "",
                              IF request[1].method = "OPTIONS" THEN ""
                              ELSE "Method not allowed. Use POST.") >>
       /\ NothingRan
  /\ (pc = "responded" /\ request[1].method = "POST" /\ ~KeyMatches) =>
       /\ http = << HttpError(401, "AUTH_ERROR", "Unauthorized") >>
       /\ NothingRan
  /\ (pc = "responded" /\ request[1].method = "POST" /\ KeyMatches
        /\ request[1].body = "no_form_data") =>
       /\ Len(http) = 1
       /\ http[1].status = 400
       /\ http[1].code = "INVALID_REQUEST"
       /\ NothingRan

\* A POST with the key 'PLACEHOLDER' while AHP_API_KEY is 'PLACEHOLDER', and
\* without form_data, was answered 401.
C31_Witness ==
  /\ pc = "responded"
  /\ request # <<>>
  /\ request[1] = [method |-> "POST", key |-> "PLACEHOLDER", body |-> "no_form_data"]
  /\ env = "PLACEHOLDER"
  /\ http = << HttpError(401, "AUTH_ERROR", "Unauthorized") >>

\* ------------------------------------------------------------------------
\* The conversation of a run
\* ------------------------------------------------------------------------
IsPrefix(s, t) == Len(s) <= Len(t) /\ SubSeq(t, 1, Len(s)) = s

RoleAt(k) == IF k % 2 = 1 THEN "user" ELSE "assistant"

\* C32: the conversation starts with the one user turn that holds the
\* serialized input event and then alternates assistant and user turns; it only
\* grows at its end; a model response appends one assistant turn (the turn
\* holding the response's content), a tool batch appends one user turn (one
\* result per invocation), and a model call is issued only on a conversation
\* whose last turn is a user turn.
C32_Inv ==
  messages # <<>> =>
    /\ messages[1] = InitialTurn
    /\ \A k \in 1..Len(messages) : messages[k].role = RoleAt(k)
    /\ Len(messages) \in {2 * Len(stops), 2 * Len(stops) + 1}
    /\ pc \in {"awaiting_model", "loop"} => Last(messages).role = "user"
    /\ pc = "executing" =>
         /\ Last(messages).role = "assistant"
         /\ Last(messages).content = response[1].content

C32_Step ==
  /\ IsPrefix(messages, messages')
  /\ Len(messages') <= Len(messages) + 2
  /\ Len(stops') = Len(stops) + 1 =>
       /\ messages'[Len(messages) + 1].role = "assistant"
       /\ Len(messages') = Len(messages) + 2 =>
            /\ Last(stops') = "tool_use"
            /\ FilterType(messages'[Len(messages) + 1].content, "tool_use") = <<>>
            /\ Last(messages') = UserTurn(<<>>)
  /\ (pc = "executing" /\ pc' # "executing") =>
       /\ Len(messages') = Len(messages) + 1
       /\ Last(messages').role = "user"
       /\ Len(Last(messages').content) = Len(ResponseToolUses(Len(stops)))
  /\ (Len(messages') > Len(messages) /\ messages # <<>>) =>
       (Len(stops') = Len(stops) + 1 \/ (pc = "executing" /\ pc' # "executing"))
  /\ modelCalls' = modelCalls + 1 =>
       /\ messages # <<>>
       /\ Last(messages).role = "user"

C32_Conversation == []C32_Inv /\ [][C32_Step]_vars

\* A run whose conversation holds the input event, an assistant turn with a
\* batch of two, the user turn of that batch and a second assistant turn.
C32_Witness ==
  /\ Len(messages) = 4
  /\ messages[1] = InitialTurn
  /\ Len(FilterType(messages[2].content, "tool_use")) = 2
  /\ messages[3].role = "user" /\ Len(messages[3].content) = 2
  /\ messages[4].role = "assistant"
  /\ modelCalls = 2

\* ------------------------------------------------------------------------
\* The iteration count
\* ------------------------------------------------------------------------
AssistantTurns == Len(SelectSeq(messages, LAMBDA m : m.role = "assistant"))

\* C33: the iteration_count a run returns is the number of model calls made
\* in the run, which is the number of assistant turns of its conversation, and
\* it is at least 1.
C33_IterationCount ==
  /\ iteration = modelCalls
  /\ returned # <<>> =>
       /\ returned[1].iteration_count = modelCalls
       /\ returned[1].iteration_count = AssistantTurns
       /\ returned[1].iteration_count >= 1

\* A run that returned after three model calls, the first two of which asked
\* for tools.
C33_Witness ==
  /\ returned # <<>>
  /\ returned[1].iteration_count = 3
  /\ modelCalls = 3
  /\ AssistantTurns = 3
  /\ Len(actions_taken) >= 2

\* ------------------------------------------------------------------------
\* The batch of the last permitted response
\* ------------------------------------------------------------------------
\* The 30th response asked for tools.
LastResponseAsksTools == Len(stops) = MAX_ITERATIONS /\ Last(stops) = "tool_use"

\* C34: when the 30th response asks for tools, its tools are executed and
\* recorded and their results are appended to the conversation as a user turn,
\* and then the run returns without a further model call: no model call is made
\* on a conversation holding those results, and the returned actions_taken has
\* a record for every tool executed, the last batch included.
C34_Inv ==
  /\ LastResponseAsksTools =>
       /\ modelCalls = MAX_ITERATIONS
       /\ pc \in {"executing", "loop", "done", "responded"}
       /\ pc # "executing" =>
            LET B == ResponseToolUses(MAX_ITERATIONS)
                off == BatchOffset(MAX_ITERATIONS)
            IN  /\ BatchSize(MAX_ITERATIONS) = Len(B)
                /\ Len(executed) = off + Len(B)
                /\ Len(messages) = 2 * MAX_ITERATIONS + 1
                /\ Last(messages).role = "user"
                /\ Len(Last(messages).content) = Len(B)
                /\ \A p \in 1..Len(B) :
                     /\ actions_taken[off + p].tool = B[p].name
                     /\ Last(messages).content[p].tool_use_id = B[p].id
  /\ returned # <<>> =>
       /\ Len(returned[1].actions_taken) = Len(executed)
       /\ \A k \in 1..Len(executed) :
            /\ returned[1].actions_taken[k].tool = executed[k].name
            /\ returned[1].actions_taken[k].input = executed[k].input

\* No model call is made once the conversation holds the results of the
\* batch of the 30th response, and the run then returns.
C34_Step ==
  /\ Len(messages) = 2 * MAX_ITERATIONS + 1 => modelCalls' = modelCalls
  /\ (LastResponseAsksTools /\ pc = "loop") =>
       /\ pc' = "done"
       /\ returned' # <<>>
       /\ returned'[1].actions_taken = actions_taken
       /\ returned'[1].iteration_count = MAX_ITERATIONS

C34_LastBatchRuns == []C34_Inv /\ [][C34_Step]_vars

\* A run returned after the two tools of its 30th response were executed, the
\* first of which threw.
C34_Witness ==
  /\ returned # <<>>
  /\ LastResponseAsksTools
  /\ Len(messages) = 2 * MAX_ITERATIONS + 1
  /\ BatchSize(MAX_ITERATIONS) = 2
  /\ executed[Len(executed) - 1].threw
  /\ Last(executed).iter = MAX_ITERATIONS
  /\ Last(returned[1].actions_taken).tool = "gmail_send"
  /\ "error" \in DOMAIN returned[1].actions_taken[Len(executed) - 1]
  /\ modelCalls = MAX_ITERATIONS

\* ------------------------------------------------------------------------
\* The shape of an Action Record
\* ------------------------------------------------------------------------
\* C35: every Action Record has the tool and the input of its invocation and
\* exactly one of result and error: error, holding the exception message,
\* exactly when executeTool threw, and result otherwise.  The error-shaped
\* value executeTool returns for an unknown tool is stored under result, in a
\* record without an error field.
C35_RecordShape ==
  /\ Len(actions_taken) = Len(executed)
  /\ \A k \in 1..Len(actions_taken) :
       LET rec == actions_taken[k]
           e == executed[k]
       IN  /\ DOMAIN rec \in {{"tool", "input", "result"}, {"tool", "input", "error"}}
           /\ rec.tool = e.name
           /\ rec.input = e.input
           /\ ("error" \in DOMAIN rec) <=> e.threw
           /\ e.threw => rec.error = e.message
           /\ e.name \notin KnownTools =>
                /\ ~e.threw
                /\ DOMAIN rec = {"tool", "input", "result"}
                /\ rec.result = [error |-> "Unknown tool: " \o e.name]
           /\ (~e.threw /\ e.name \in KnownTools) => rec.result = [data |-> ToolOp(e.name)]
  /\ returned # <<>> => returned[1].actions_taken = actions_taken

\* A returned ledger with a record of each shape: a result, an error, and the
\* error-shaped result of an unknown tool.
C35_Witness ==
  /\ returned # <<>>
  /\ \E k \in 1..Len(actions_taken) :
       /\ executed[k].threw
       /\ DOMAIN actions_taken[k] = {"tool", "input", "error"}
  /\ \E k \in 1..Len(actions_taken) :
       /\ executed[k].name \in KnownTools
       /\ DOMAIN actions_taken[k] = {"tool", "input", "result"}
  /\ \E k \in 1..Len(actions_taken) :
       /\ executed[k].name = UnknownTool
       /\ "error" \in DOMAIN actions_taken[k].result
       /\ "error" \notin DOMAIN actions_taken[k]

\* ------------------------------------------------------------------------
\* updateRow is not atomic
\* ------------------------------------------------------------------------
\* The requests of caller p that the store has carried out, as a set.
WrittenBy(p) ==
  { [range |-> WritesOf(p)[j].range, value |-> WritesOf(p)[j].value] :
      j \in 1..Len(WritesOf(p)) }

\* No later write of the log went to the cell of entry j.
LastWriteToCell(j) ==
  \A k \in (j + 1)..Len(writeLog) :
    ~(writeLog[k].kind = "update" /\ writeLog[k].range = writeLog[j].range)

\* C36: an updateRow that returned {success: true} had every cell write it
\* issued carried out; an updateRow of which a cell write failed has thrown,
\* with at least one of its writes not carried out, and the writes of that call
\* which the store did carry out stay in the store: the step in which the call
\* throws changes no cell, and a written cell keeps its value until another
\* write goes to it.
C36_Inv ==
  /\ \A p \in Callers :
       calls[p].op = "updateRow" =>
         /\ calls[p].pc = "returned" =>
              /\ calls[p].result[1].success
              /\ ~calls[p].failed
              /\ calls[p].pending = {}
              /\ WrittenBy(p) = calls[p].issued
         /\ (calls[p].failed /\ calls[p].headers # <<>>) =>
              /\ calls[p].pc = "thrown"
              /\ calls[p].result = <<>>
              /\ WrittenBy(p) \subseteq calls[p].issued
              /\ WrittenBy(p) \cup calls[p].pending # calls[p].issued
  /\ \A j \in 1..Len(writeLog) :
       (writeLog[j].kind = "update" /\ writeLog[j].range[3] >= 2 /\ LastWriteToCell(j)) =>
         CellAt(store[writeLog[j].range[1]], writeLog[j].range[3],
                ColumnNumber(writeLog[j].range[2])) = writeLog[j].value

C36_Step ==
  /\ \A p \in Callers :
       (calls'[p].failed /\ ~calls[p].failed) =>
         /\ store' = store
         /\ writeLog' = writeLog
  /\ (store' # store /\ writeLog' = writeLog) =>
       \E n \in SheetNames :
         store' = [store EXCEPT ![n].headers = EditedHeaderRow]

C36_UpdateNotAtomic == []C36_Inv /\ [][C36_Step]_vars

\* An updateRow of two cells threw after one of them was written: the written
\* cell holds the new value, the other one was never written.
C36_Witness ==
  /\ calls["c1"].op = "updateRow" /\ calls["c1"].pc = "thrown"
  /\ calls["c1"].rowNumber = 2
  /\ Cardinality(calls["c1"].issued) = 2
  /\ calls["c1"].pending = {}
  /\ Len(WritesOf("c1")) = 1
  /\ calls["c2"].pc = "idle"
  /\ CellAt(store["Tasks"], 2, ColumnNumber(WritesOf("c1")[1].range[2]))
       = WritesOf("c1")[1].value
  /\ WritesOf("c1")[1].value = "x"

\* ------------------------------------------------------------------------
\* Writing a cell and reading it back
\* ------------------------------------------------------------------------
\* Caller q made a successful updateRow of a data row, the header row was not
\* edited, and the store has carried out no write but those of q.
OnlyUpdateBy(q) ==
  /\ calls[q].op = "updateRow" /\ calls[q].pc = "returned"
  /\ calls[q].rowNumber >= 2
  /\ store[calls[q].sheet].headers \in CallHeaderRows
  /\ \A j \in 1..Len(writeLog) : writeLog[j].caller = q

\* The rows of a readRows result that carry row number r.
RowsNumbered(res, r) == { i \in 1..Len(res.rows) : res.row_numbers[i] = [num |-> r] }

\* What the store holds after a write of val: String(val ?? '').
Written(val) == IF val.t = "null" THEN "" ELSE StringOf(val)

\* C37: a readRows that is answered after a successful updateRow(sheet, r,
\* values), with no other write in between, returns for the row with row
\* number r, under every key of values that is a cached header, the value
\* written, whatever the header row is.
C37_Step ==
  \A p \in Callers, q \in Callers :
    (Returns(p, "readRows") /\ OnlyUpdateBy(q) /\ calls[p].sheet = calls[q].sheet) =>
      LET res == calls'[p].result[1]
          upd == ResolvedEntries(calls[q].headers[1], calls[q].values)
      IN  \A i \in RowsNumbered(res, calls[q].rowNumber) :
            \A j \in 1..Len(upd) : res.rows[i][upd[j][1]] = Written(upd[j][2])

C37_WriteThenRead == [][C37_Step]_vars

\* ------------------------------------------------------------------------
\* Row numbers of a read
\* ------------------------------------------------------------------------
\* C38: in every readRows result, row_numbers[p] is the number of the sheet
\* row that rows[p] was read from: a number n >= 2 of an existing data row
\* (data row k has number k + 1), no number occurs twice, and rows[p] holds
\* the cells of data row n - 1, whatever the filter and the sort order.
C38_RowNumbersPhysical ==
  lastRead # <<>> =>
    /\ Len(ReadResult.row_numbers) = Len(ReadResult.rows)
    /\ \A p \in 1..Len(ReadResult.rows) :
         /\ "num" \in DOMAIN ReadResult.row_numbers[p]
         /\ ReadResult.row_numbers[p].num \in 2..(Len(ReadSheet.rows) + 1)
         /\ \A h \in DOMAIN ReadResult.rows[p] :
              ReadResult.rows[p][h] = CellOf(ReadResult.row_numbers[p].num - 1, h)
         /\ \A q \in 1..Len(ReadResult.rows) :
              ReadResult.row_numbers[q] = ReadResult.row_numbers[p] => q = p

\* ------------------------------------------------------------------------
\* A header fetch that fails
\* ------------------------------------------------------------------------
\* The header fetch of caller p failed.
FetchFailed(p) == calls[p].failed /\ calls[p].headers = <<>>

\* C39: when the fetch of row 1 fails, the step stores no cache entry and
\* changes nothing in the store, and the row operation throws without a
\* result; a cache entry exists only when some header fetch was answered; so
\* an operation that starts after the failure, the key still having no entry,
\* issues the header fetch again.
C39_Inv ==
  /\ \A p \in Callers :
       FetchFailed(p) =>
         /\ calls[p].pc = "thrown"
         /\ calls[p].result = <<>>
         /\ ~calls[p].hit
         /\ calls[p].issued = {}
  /\ \A key \in CacheKeys :
       headerCache[key] # <<>> =>
         \E p \in Callers :
           /\ CacheKey(calls[p].sheet) = key
           /\ ~calls[p].hit
           /\ calls[p].headers # <<>>

C39_Step ==
  /\ \A p \in Callers :
       (calls[p].pc = "fetching" /\ calls'[p].failed) =>
         /\ headerCache' = headerCache
         /\ store' = store
         /\ calls'[p].pc = "thrown"
  /\ \A p \in Callers, q \in Callers :
       (FetchFailed(p) /\ calls[q].pc = "idle" /\ calls'[q].pc # "idle"
          /\ calls'[q].sheet = calls[p].sheet
          /\ headerCache[CacheKey(calls[p].sheet)] = <<>>) =>
         /\ calls'[q].pc = "fetching"
         /\ fetches' = fetches + 1

C39_FailedFetchNotCached == []C39_Inv /\ [][C39_Step]_vars

\* The header fetch of an appendRow failed and left no entry; an updateRow
\* that started afterwards fetched the headers again and returned.
C39_Witness ==
  /\ calls["c1"].op = "appendRow" /\ FetchFailed("c1") /\ calls["c1"].pc = "thrown"
  /\ calls["c2"].op = "updateRow" /\ calls["c2"].pc = "returned" /\ ~calls["c2"].hit
  /\ fetches = 2
  /\ headerCache[CacheKey("Tasks")] = calls["c2"].headers
  /\ writeLog # <<>>
  /\ \A j \in 1..Len(writeLog) : writeLog[j].caller = "c2"

============================================================================
